---- MODULE Spec2Model ----
(***************************************************************************)
(* Bird Shooter: the App reducer (src/src/App.tsx), the level table        *)
(* (src/src/game/levels.ts) and the per-frame simulation of GameCanvas     *)
(* (src/src/components/UiHud.tsx, from line 115).                          *)
(*                                                                         *)
(* Abstractions, all of them stated here:                                  *)
(*  - Positions are cells of the virtual playfield.  Columns 0..NX-1 and   *)
(*    rows 0..NY-1 are inside it; column -1 / NX and row -1 / NY are the   *)
(*    margin in which the code spawns hostiles (x = -20, x = w + 20,       *)
(*    y = -20) and still keeps them (the cull test has a 40 unit margin).  *)
(*    Two rectangles overlap when rectsIntersect says so for unit cells.   *)
(*  - Every frame a hostile, a bullet and a power-up advance one cell in   *)
(*    the direction of their velocity; the kinds of hostile that differ    *)
(*    in speed only (fast, zigzag) move as the simple one does.            *)
(*  - performance.now() is wall-clock time and the gap between two frames  *)
(*    is not bounded by the code (only dt is capped), so whether a         *)
(*    deadline (rapidUntil, doubleUntil, laserUntil, laserNextAt, the      *)
(*    spawn interval, the 1200 ms level-clear delay) has passed at a given *)
(*    frame is an input of that frame.  The refs that hold timestamps are  *)
(*    kept as the truth value of the comparison the code makes with them.  *)
(*    SpecBuff is a second specification of the two buff expiries alone,   *)
(*    with the clock and the timestamps in milliseconds; SpecClock is one  *)
(*    of the spawn decision and the beam's cadence, SpecCombo one of the   *)
(*    combo, in the same way.                                              *)
(*  - SpecTable, SpecShoot, SpecHoming, SpecPlayer and SpecApp are         *)
(*    specifications of one part each (the level tables, the fire control, *)
(*    the homing steer, the player's position, the reducer) over the same  *)
(*    variables, each described where it is defined.                       *)
(*  - Hostiles carry the hp they were spawned with (k), the damage taken   *)
(*    (dmg) and whether they have been inside the field (inside) as        *)
(*    history fields; the code reads none of them.                         *)
(*  - Math.random() draws are inputs of the frame.                         *)
(*  - Particles, sounds, vibration, banners and drawing are left out.      *)
(***************************************************************************)
EXTENDS Integers, Sequences, FiniteSets, TLC

VARIABLES
  state,     \* App: the useReducer state {mode, score, highScore, session, level, lives}
  storage,   \* App: localStorage item 'highScore'
  run,       \* GameCanvas: the refs of the simulation (RunState)
  timers,    \* pending setTimeout(onLevelCleared, 1200) callbacks, oldest first
  hist,      \* history: setTimeout calls of the current session, sessions begun, frames run
  obs        \* history: what the last frame or the last delivered callback did

vars == <<state, storage, run, timers, hist, obs>>

----------------------------------------------------------------------------
(* Bounds of the model *)

MaxBirds == 2      \* hostiles alive at once
MaxBullets == 2    \* bullets alive at once
MaxPowerUps == 1   \* power-ups alive at once
MaxShield == 1     \* shield charges held at once
MaxSession == 2    \* sessions begun with PLAY or Restart in one run
MaxFrames == 5     \* frames simulated in one run
MaxTicks == 8      \* readings of performance.now() in one run of the buff clock
MaxClockSteps == 5 \* advances of performance.now() in one run of the frame clock
MaxQuiet == 7      \* frames since the last emission that are counted
MaxPlayerFrames == 3 \* frames in one run of the player's position
MaxComboSteps == 3 \* advances of performance.now() in one run of the combo
MaxComboLevel == 2 \* the last level entered in one run of the combo
MaxAppEvents == 2  \* ADD_SCORE and LOSE_LIFE dispatches in one run of the App's reducer
MaxPending == 1    \* timeouts of a level clear pending at once in that run
MaxHostiles == 2   \* hostiles drawn for one resolution pass
MaxShots == 2      \* bullets drawn for one resolution pass

(* The playfield in cells: columns Cols and rows Rows are inside it *)
Cols == 0 .. 0
Rows == 0 .. 2
NX == Cardinality(Cols)
NY == Cardinality(Rows)
PlayerRow == NY - 1          \* player.pos.y = VIRTUAL_H - 40
CenterCol == NX \div 2       \* w / 2

(* Levels whose sessions the model starts in *)
StartLevels == {20, 41, 50}
(* Kills by which such a session is short of its target, and its lives *)
StartShort == {2}
StartLives == {2}
(* The kinds of hostile the model draws, and the rows a side spawn starts in *)
DrawnKinds == {"simple", "tanky"}
SideRows == {0}

Min(a, b) == IF a < b THEN a ELSE b
Max(a, b) == IF a > b THEN a ELSE b
clamp(v, a, b) == Max(a, Min(b, v))

----------------------------------------------------------------------------
(* src/src/game/levels.ts *)

NumLevels == 50

scoreMultiplier(level) == level

birdTypes(level) ==
  IF level = 50 THEN <<"boss">>
  ELSE LET base == IF level >= 21 THEN <<"simple", "fast", "zigzag", "tanky">>
                   ELSE IF level >= 15 THEN <<"simple", "fast", "zigzag">>
                   ELSE IF level >= 11 THEN <<"simple", "fast">>
                   ELSE <<"simple">>
       IN IF level % 5 = 0 THEN Append(base, "boss") ELSE base

killsRequired(level) ==
  IF level <= 10 THEN 8 + (level \div 2)
  ELSE IF level <= 20 THEN 12 + ((level - 10) \div 2)
  ELSE IF level <= 30 THEN 16 + ((level - 20) \div 2)
  ELSE IF level <= 40 THEN 18 + ((level - 30) \div 2)
  ELSE IF level < 50 THEN 20 + ((level - 40) \div 2)
  ELSE 1

targetScore(level) == 10 * scoreMultiplier(level) * killsRequired(level)

\* levelConfig[Math.min(levelConfig.length, Math.max(1, level)) - 1]
cfgLevel(level) == Min(NumLevels, Max(1, level))

\* the spawn rate of a level, in ms
spawnRate(level) == Max(260, 1100 - level * 14)

----------------------------------------------------------------------------
(* src/src/App.tsx *)

InitialLives == 100
FinalLevel == 50

\* localStorage has no item 'highScore'
NoItem == <<>>

RECURSIVE String(_)
\* String(n) for an integer n >= 0: its decimal digits, the first one first
String(n) == IF n < 10 THEN <<n>> ELSE Append(String(n \div 10), n % 10)

RECURSIVE parseDigits(_, _)
parseDigits(digits, acc) ==
  IF digits = <<>> THEN acc ELSE parseDigits(Tail(digits), acc * 10 + Head(digits))

\* parseInt(v) for a string of decimal digits
parseInt(v) == parseDigits(v, 0)

\* getHighScore() when localStorage.getItem('highScore') is v
getHighScore(v) == IF v # NoItem THEN parseInt(v) ELSE 0

\* reducer(state, action): the next state and the localStorage item
reducer(st, ls, action) ==
  CASE action.type = "START" ->
         [state |-> [st EXCEPT !.mode = "playing", !.score = 0,
                               !.session = st.session + 1, !.level = 1,
                               !.lives = InitialLives],
          storage |-> ls]
    [] action.type = "PAUSE" ->
         [state |-> [st EXCEPT !.mode = "paused"], storage |-> ls]
    [] action.type = "RESUME" ->
         [state |-> [st EXCEPT !.mode = "playing"], storage |-> ls]
    [] action.type = "ADD_SCORE" ->
         LET next == Max(0, st.score + action.amount)
             raised == next > st.highScore
         IN [state |-> [st EXCEPT !.score = next,
                                  !.highScore = IF raised THEN next ELSE @],
             storage |-> IF raised THEN String(next) ELSE ls]
    [] action.type = "LOSE_LIFE" ->
         LET lives == Max(0, st.lives - 1)
         IN [state |-> IF lives <= 0
                       THEN [st EXCEPT !.lives = lives, !.mode = "gameover"]
                       ELSE [st EXCEPT !.lives = lives],
             storage |-> ls]
    [] action.type = "LEVEL_CLEARED" ->
         [state |-> IF st.level >= FinalLevel
                    THEN [st EXCEPT !.mode = "victory"]
                    ELSE [st EXCEPT !.level = st.level + 1,
                                    !.session = st.session + 1,
                                    !.lives = st.lives * 2],
          storage |-> ls]
    [] action.type = "RESET" ->
         [state |-> [mode |-> "start", score |-> 0, highScore |-> getHighScore(ls),
                     session |-> st.session, level |-> 1, lives |-> InitialLives],
          storage |-> ls]
    [] OTHER -> [state |-> st, storage |-> ls]

RECURSIVE dispatchAll(_, _, _)
\* the actions dispatched during one callback, reduced in dispatch order
dispatchAll(st, ls, actions) ==
  IF actions = <<>> THEN [state |-> st, storage |-> ls]
  ELSE LET r == reducer(st, ls, Head(actions))
       IN dispatchAll(r.state, r.storage, Tail(actions))

\* GameCanvas is rendered in these modes only (App.tsx line 129)
Mounted(st) == st.mode \in {"playing", "paused"}

----------------------------------------------------------------------------
(* src/src/components/UiHud.tsx: GameCanvas *)

PowerUpTypes == <<"double", "rapid", "shield">>

\* the step's dt: Math.min(1 / 30, (now - last) / 1000), in whole milliseconds
DtMs == 33

LaserLevel == 30

getUpgrade(lv) ==
  IF lv >= 50 THEN [cooldown |-> 60, pattern |-> "ultimate", pierce |-> 3, kind |-> "strong",
                    angles |-> <<-18, -12, -6, 6, 12, 18>>, sideBySide |-> FALSE]
  ELSE IF lv >= 45 THEN [cooldown |-> 160, pattern |-> "spread6", pierce |-> 1, kind |-> "normal",
                    angles |-> <<-18, -12, -6, 6, 12, 18>>, sideBySide |-> FALSE]
  ELSE IF lv >= 40 THEN [cooldown |-> 60, pattern |-> "rapid", pierce |-> 1, kind |-> "normal",
                    angles |-> <<>>, sideBySide |-> FALSE]
  ELSE IF lv >= 35 THEN [cooldown |-> 120, pattern |-> "homing", pierce |-> 1, kind |-> "homing",
                    angles |-> <<-6, 6>>, sideBySide |-> FALSE]
  ELSE IF lv >= 30 THEN [cooldown |-> 140, pattern |-> "quad", pierce |-> 1, kind |-> "normal",
                    angles |-> <<-12, -4, 4, 12>>, sideBySide |-> FALSE]
  ELSE IF lv >= 25 THEN [cooldown |-> 150, pattern |-> "quad", pierce |-> 1, kind |-> "normal",
                    angles |-> <<-12, -4, 4, 12>>, sideBySide |-> FALSE]
  ELSE IF lv >= 20 THEN [cooldown |-> 120, pattern |-> "pierce", pierce |-> 2, kind |-> "strong",
                    angles |-> <<>>, sideBySide |-> FALSE]
  ELSE IF lv >= 15 THEN [cooldown |-> 150, pattern |-> "spread3", pierce |-> 1, kind |-> "normal",
                    angles |-> <<-10, 0, 10>>, sideBySide |-> FALSE]
  ELSE IF lv >= 10 THEN [cooldown |-> 130, pattern |-> "double", pierce |-> 1, kind |-> "normal",
                    angles |-> <<>>, sideBySide |-> TRUE]
  ELSE IF lv >= 5 THEN [cooldown |-> 130, pattern |-> "single", pierce |-> 1, kind |-> "normal",
                    angles |-> <<>>, sideBySide |-> FALSE]
  ELSE [cooldown |-> 200, pattern |-> "single", pierce |-> 1, kind |-> "normal",
        angles |-> <<>>, sideBySide |-> FALSE]

\* rectsIntersect on the rectangles of two cells (width and height one cell)
rectsIntersect(a, b) ==
  /\ a.x < b.x + b.w
  /\ a.x + a.w > b.x
  /\ a.y < b.y + b.h
  /\ a.y + a.h > b.y

rectOf(e) == [x |-> e.x, y |-> e.y, w |-> 1, h |-> 1]

\* the refs after the session reset effect (and after a mount)
sessionReset ==
  [bullets |-> <<>>, birds |-> <<>>, powerUps |-> <<>>,
   playerX |-> CenterCol,
   shootCooldown |-> 0, rapidOn |-> FALSE, doubleOn |-> FALSE,
   shieldCharges |-> 0, levelProgress |-> 0, clearingLevel |-> FALSE,
   bossAlive |-> FALSE, laserOn |-> FALSE]

\* what one step has done so far, beside the refs
noObs ==
  [kind |-> "init", wasClearing |-> FALSE, cleared |-> FALSE, timeouts |-> 0,
   lateKills |-> 0, passBirds |-> 0, passBullets |-> 0,
   shieldBefore |-> 0, escapes |-> 0, bossCharged |-> 0, lifeLost |-> 0, shieldUsed |-> 0,
   fired |-> 0, beamHits |-> 0, hits |-> 0, scored |-> 0, stale |-> FALSE,
   pre |-> <<>>, hit |-> {}, post |-> <<>>,
   kills |-> 0, earlyKills |-> 0, awards |-> 0, toughKills |-> 0, double |-> FALSE,
   progressBefore |-> 0, spawnCalls |-> 0, spawned |-> 0, spawnedNormal |-> 0,
   outsideEscapes |-> 0, picked |-> 0, shieldPicked |-> 0, whilePaused |-> FALSE,
   puBefore |-> 0, dropped |-> 0]

\* the working state of one update(dt) call
frameStart(r) ==
  [run |-> r, events |-> <<>>, struck |-> <<>>,
   o |-> [noObs EXCEPT !.kind = "frame", !.wasClearing = r.clearingLevel,
                       !.shieldBefore = r.shieldCharges, !.double = r.doubleOn,
                       !.progressBefore = r.levelProgress, !.puBefore = Len(r.powerUps)]]

onAddScore(f, amount) ==
  [f EXCEPT !.events = Append(@, [type |-> "ADD_SCORE", amount |-> amount]),
            !.o.scored = @ + amount, !.o.awards = @ + 1]

onLoseLife(f) ==
  [f EXCEPT !.events = Append(@, [type |-> "LOSE_LIFE"]), !.o.lifeLost = @ + 1]

\* a level-clear branch that adds the bonus to the level progress as well
enterClearingBonusInProgress(f, level) ==
  LET target == targetScore(cfgLevel(level))
      bonus == target \div 10
      g == [f EXCEPT !.run.clearingLevel = TRUE, !.run.birds = <<>>, !.run.bullets = <<>>,
                     !.run.levelProgress = @ + bonus, !.o.cleared = TRUE]
      h == IF bonus > 0 THEN onAddScore(g, bonus) ELSE g
  IN [h EXCEPT !.o.timeouts = @ + 1]

\* the level-clear branch of awardOnKill without its guard
enterClearing(f, level) ==
  LET target == targetScore(cfgLevel(level))
      bonus == target \div 10
      g == [f EXCEPT !.run.clearingLevel = TRUE, !.run.birds = <<>>, !.run.bullets = <<>>,
                     !.o.cleared = TRUE]
      h == IF bonus > 0 THEN onAddScore(g, bonus) ELSE g
  IN [h EXCEPT !.o.timeouts = @ + 1]

\* awardOnKill with the level-clear branch taken whenever the target is reached, also
\* while a clear is in progress
awardOnKillUnguarded(f, b, level, drop) ==
  LET base == 10 * scoreMultiplier(cfgLevel(level))
      pts == IF f.run.doubleOn THEN base * 2 ELSE base
      f1 == onAddScore(f, pts)
      f2 == [f1 EXCEPT !.o.lateKills = @ + (IF f.run.clearingLevel THEN 1 ELSE 0),
                       !.o.kills = @ + 1, !.o.dropped = @ + (IF drop = "none" THEN 0 ELSE 1),
                       !.o.toughKills = @ + (IF b.k > 1 THEN 1 ELSE 0),
                       !.o.earlyKills = @ + (IF b.dmg < b.k THEN 1 ELSE 0),
                       !.run.levelProgress = @ + pts,
                       !.run.bossAlive = IF b.type = "boss" THEN FALSE ELSE @,
                       !.run.powerUps = IF drop = "none" THEN @
                                        ELSE Append(@, [type |-> drop, x |-> b.x, y |-> b.y])]
  IN IF f2.run.levelProgress >= targetScore(cfgLevel(level))
     THEN enterClearing(f2, level)
     ELSE f2

\* awardOnKill that never doubles the points
awardOnKillNoDouble(f, b, level, drop) ==
  LET pts == 10 * scoreMultiplier(cfgLevel(level))
      f1 == onAddScore(f, pts)
      f2 == [f1 EXCEPT !.o.lateKills = @ + (IF f.run.clearingLevel THEN 1 ELSE 0),
                       !.o.kills = @ + 1, !.o.dropped = @ + (IF drop = "none" THEN 0 ELSE 1),
                       !.o.toughKills = @ + (IF b.k > 1 THEN 1 ELSE 0),
                       !.o.earlyKills = @ + (IF b.dmg < b.k THEN 1 ELSE 0),
                       !.run.levelProgress = @ + pts,
                       !.run.bossAlive = IF b.type = "boss" THEN FALSE ELSE @,
                       !.run.powerUps = IF drop = "none" THEN @
                                        ELSE Append(@, [type |-> drop, x |-> b.x, y |-> b.y])]
  IN IF ~f2.run.clearingLevel /\ f2.run.levelProgress >= targetScore(cfgLevel(level))
     THEN enterClearing(f2, level)
     ELSE f2

\* awardOnKill whose level-clear test is levelProgress > targetScore
awardOnKillStrict(f, b, level, drop) ==
  LET base == 10 * scoreMultiplier(cfgLevel(level))
      pts == IF f.run.doubleOn THEN base * 2 ELSE base
      f1 == onAddScore(f, pts)
      f2 == [f1 EXCEPT !.o.lateKills = @ + (IF f.run.clearingLevel THEN 1 ELSE 0),
                       !.o.kills = @ + 1, !.o.dropped = @ + (IF drop = "none" THEN 0 ELSE 1),
                       !.o.toughKills = @ + (IF b.k > 1 THEN 1 ELSE 0),
                       !.o.earlyKills = @ + (IF b.dmg < b.k THEN 1 ELSE 0),
                       !.run.levelProgress = @ + pts,
                       !.run.bossAlive = IF b.type = "boss" THEN FALSE ELSE @,
                       !.run.powerUps = IF drop = "none" THEN @
                                        ELSE Append(@, [type |-> drop, x |-> b.x, y |-> b.y])]
  IN IF ~f2.run.clearingLevel /\ f2.run.levelProgress > targetScore(cfgLevel(level))
     THEN enterClearing(f2, level)
     ELSE f2

\* awardOnKill(b); drop is the power-up type drawn, or "none"
awardOnKill(f, b, level, drop) ==
  LET base == 10 * scoreMultiplier(cfgLevel(level))
      pts == IF f.run.doubleOn THEN base * 2 ELSE base
      f1 == onAddScore(f, pts)
      f2 == [f1 EXCEPT !.o.lateKills = @ + (IF f.run.clearingLevel THEN 1 ELSE 0),
                       !.o.kills = @ + 1, !.o.dropped = @ + (IF drop = "none" THEN 0 ELSE 1),
                       !.o.toughKills = @ + (IF b.k > 1 THEN 1 ELSE 0),
                       !.o.earlyKills = @ + (IF b.dmg < b.k THEN 1 ELSE 0),
                       !.run.levelProgress = @ + pts,
                       !.run.bossAlive = IF b.type = "boss" THEN FALSE ELSE @,
                       !.run.powerUps = IF drop = "none" THEN @
                                        ELSE Append(@, [type |-> drop, x |-> b.x, y |-> b.y])]
  IN IF ~f2.run.clearingLevel /\ f2.run.levelProgress >= targetScore(cfgLevel(level))
     THEN enterClearing(f2, level)
     ELSE f2

Sign(v) == IF v > 0 THEN 1 ELSE IF v < 0 THEN -1 ELSE 0
Abs(v) == IF v < 0 THEN -v ELSE v

\* pushBullet: a bullet of the profile at (px, py) with lateral velocity vx
newBullet(px, py, vx, up) ==
  [x |-> px, y |-> py, vx |-> vx, pierce |-> up.pierce, kind |-> up.kind,
   n |-> up.pierce, hits |-> 0]

\* fireBullets(px, py, up): the bullets one emission pushes, in push order
fireBullets(px, py, up) ==
  LET angles == IF up.angles = <<>> THEN <<0>> ELSE up.angles
      fan == [i \in 1 .. Len(angles) |-> newBullet(px, py, Sign(angles[i]), up)]
  IN CASE up.pattern \in {"single", "pierce", "rapid"} -> <<newBullet(px, py, 0, up)>>
       [] up.pattern = "double" ->
            IF up.sideBySide THEN <<newBullet(px, py, 0, up), newBullet(px, py, 0, up)>>
            ELSE <<newBullet(px, py, 0, up)>>
       [] up.pattern \in {"spread3", "quad", "spread6", "homing"} -> fan
       [] up.pattern = "ultimate" -> Append(fan, newBullet(px, py, 0, up))

\* tryShoot pushing the two side bullets whenever the double buff is active
shotBulletsAnyPattern(r, up) ==
  fireBullets(r.playerX, PlayerRow, up)
    \o (IF r.doubleOn
        THEN <<newBullet(r.playerX, PlayerRow, 0, up), newBullet(r.playerX, PlayerRow, 0, up)>>
        ELSE <<>>)

\* the bullets tryShoot pushes when it fires
shotBullets(r, up) ==
  fireBullets(r.playerX, PlayerRow, up)
    \o (IF r.doubleOn /\ up.pattern = "single"
        THEN <<newBullet(r.playerX, PlayerRow, 0, up), newBullet(r.playerX, PlayerRow, 0, up)>>
        ELSE <<>>)

\* tryShoot without the test of the cooldown
tryShootAnyCooldown(f, up, cooldownMs, fire) ==
  IF ~fire THEN f
  ELSE [f EXCEPT !.run.bullets = @ \o shotBullets(f.run, up),
                 !.run.shootCooldown = cooldownMs,
                 !.o.fired = @ + Len(shotBullets(f.run, up))]

\* tryShoot(p, up, now, cooldownMs); fire is keys[' '] || keys['space']
tryShoot(f, up, cooldownMs, fire) ==
  IF f.run.shootCooldown > 0 \/ ~fire THEN f
  ELSE [f EXCEPT !.run.bullets = @ \o shotBullets(f.run, up),
                 !.run.shootCooldown = cooldownMs,
                 !.o.fired = @ + Len(shotBullets(f.run, up))]

\* updateLaserCadence(now); due is now >= laserNextAt
updateLaserCadence(f, level, due) ==
  IF level >= LaserLevel /\ due /\ ~f.run.laserOn
  THEN [f EXCEPT !.run.laserOn = TRUE]
  ELSE f

\* handlePlayerAndShooting(dt, cw); a cooldown that has run out is kept at 0
handlePlayerAndShooting(f, level, axis, fire, due) ==
  LET up == getUpgrade(level)
      f1 == [f EXCEPT !.run.playerX = clamp(@ + axis, 0, NX - 1)]
      f2 == updateLaserCadence(f1, level, due)
      rapidActive == f2.run.rapidOn \/ up.pattern = "rapid"
      cooldownMs == IF rapidActive THEN Max(40, up.cooldown \div 2) ELSE up.cooldown
      f3 == [f2 EXCEPT !.run.shootCooldown = Max(0, @ - DtMs)]
  IN tryShoot(f3, up, cooldownMs, fire)

\* the hostile is in the beam: within the beam's width of the player and above the player
inBeam(b, px) == b.x = px /\ b.y < PlayerRow

\* the beam loop that scores every hit, killing or not
RECURSIVE laserLoopScoreHits(_, _, _, _, _, _, _)
laserLoopScoreHits(f, birds, j, survivors, px, level, drops) ==
  IF j > Len(birds) THEN [f EXCEPT !.run.birds = survivors]
  ELSE IF inBeam(birds[j], px)
       THEN LET b == [birds[j] EXCEPT !.hp = @ - 1, !.dmg = @ + 1]
                g == [f EXCEPT !.o.beamHits = @ + 1]
            IN IF b.hp <= 0
               THEN laserLoopScoreHits(awardOnKill(g, b, level, drops[j]), birds, j + 1,
                                       survivors, px, level, drops)
               ELSE laserLoopScoreHits(onAddScore(g, 10 * scoreMultiplier(cfgLevel(level))),
                                       birds, j + 1, Append(survivors, b), px, level, drops)
       ELSE laserLoopScoreHits(f, birds, j + 1, Append(survivors, birds[j]), px, level, drops)

RECURSIVE laserLoop(_, _, _, _, _, _, _)
laserLoop(f, birds, j, survivors, px, level, drops) ==
  IF j > Len(birds) THEN [f EXCEPT !.run.birds = survivors]
  ELSE IF inBeam(birds[j], px)
       THEN LET b == [birds[j] EXCEPT !.hp = @ - 1, !.dmg = @ + 1]
                g == [f EXCEPT !.o.beamHits = @ + 1]
            IN IF b.hp <= 0
               THEN laserLoop(awardOnKill(g, b, level, drops[j]), birds, j + 1, survivors,
                              px, level, drops)
               ELSE laserLoop(g, birds, j + 1, Append(survivors, b), px, level, drops)
       ELSE laserLoop(f, birds, j + 1, Append(survivors, birds[j]), px, level, drops)

\* the sizes of both collections right after the pass in which the clear was entered
notePass(before, after) ==
  IF after.o.cleared /\ ~before.o.cleared
  THEN [after EXCEPT !.o.passBirds = Len(after.run.birds),
                     !.o.passBullets = Len(after.run.bullets)]
  ELSE after

\* applyLaserDamageIfActive(); laserOn is now < laserUntil
applyLaserDamageIfActive(f, level, drops) ==
  IF ~f.run.laserOn THEN f
  ELSE notePass(f, laserLoop(f, f.run.birds, 1, <<>>, f.run.playerX, level, drops))

laserKilled(r) ==
  IF ~r.laserOn THEN {}
  ELSE {j \in 1 .. Len(r.birds) : inBeam(r.birds[j], r.playerX) /\ r.birds[j].hp - 1 <= 0}

\* a pool in which boss has weight 1
RECURSIVE pickPoolWithBoss(_)
pickPoolWithBoss(types) ==
  IF types = <<>> THEN <<>>
  ELSE LET t == Head(types)
           weight == IF t = "simple" THEN 4 ELSE IF t = "fast" THEN 3
                     ELSE IF t = "zigzag" THEN 2 ELSE 1
       IN [i \in 1 .. weight |-> t] \o pickPoolWithBoss(Tail(types))

\* pickType(types): the pool it draws from
RECURSIVE pickPool(_)
pickPool(types) ==
  IF types = <<>> THEN <<>>
  ELSE LET t == Head(types)
           weight == IF t = "simple" THEN 4 ELSE IF t = "fast" THEN 3
                     ELSE IF t = "zigzag" THEN 2 ELSE IF t = "tanky" THEN 1 ELSE 0
       IN [i \in 1 .. weight |-> t] \o pickPool(Tail(types))

\* the values pickType(types) can return
pickType(types) ==
  LET pool == pickPool(types)
  IN IF Len(pool) > 0 THEN {pool[i] : i \in 1 .. Len(pool)} ELSE {"simple"}

bossHp(level) == IF level = 50 THEN 22 ELSE Max(6, 4 + (level \div 5))

\* a boss pushed without setting bossAlive
spawnBossNoFlag(f, level) ==
  [f EXCEPT !.run.birds = Append(@, [type |-> "boss", hp |-> bossHp(level),
                                     x |-> CenterCol, y |-> -1, vx |-> 0, vy |-> 1,
                                     k |-> bossHp(level), dmg |-> 0, inside |-> TRUE]),
            !.o.spawned = @ + 1]

\* spawnBoss(w, speedScale)
spawnBoss(f, level) ==
  [f EXCEPT !.run.bossAlive = TRUE,
            !.run.birds = Append(@, [type |-> "boss", hp |-> bossHp(level),
                                     x |-> CenterCol, y |-> -1, vx |-> 0, vy |-> 1,
                                     k |-> bossHp(level), dmg |-> 0, inside |-> TRUE]),
            !.o.spawned = @ + 1]

\* spawnFromTop: x = rand(20, w - 20), y = -20, moving down
spawnFromTop(f, type, x) ==
  [f EXCEPT !.run.birds = Append(@, [type |-> type, hp |-> IF type = "tanky" THEN 3 ELSE 1,
                                     x |-> x, y |-> -1, vx |-> 0, vy |-> 1,
                                     k |-> IF type = "tanky" THEN 3 ELSE 1, dmg |-> 0,
                                     inside |-> TRUE]),
            !.o.spawned = @ + 1, !.o.spawnedNormal = @ + 1]

\* spawnFromSide: x = side < 0 ? -20 : w + 20, y = rand(40, 200), vx = side * rand(..)
spawnFromSide(f, type, side, y) ==
  [f EXCEPT !.run.birds = Append(@, [type |-> type, hp |-> IF type = "tanky" THEN 3 ELSE 1,
                                     x |-> IF side < 0 THEN -1 ELSE NX, y |-> y,
                                     vx |-> side, vy |-> 0,
                                     k |-> IF type = "tanky" THEN 3 ELSE 1, dmg |-> 0,
                                     inside |-> FALSE]),
            !.o.spawned = @ + 1, !.o.spawnedNormal = @ + 1]

spawnNormalBird(f, c) ==
  IF c.edge = "top" THEN spawnFromTop(f, c.type, c.x) ELSE spawnFromSide(f, c.type, c.side, c.y)

\* spawnBird that does not look at bossAliveRef
spawnBirdAnyBoss(f, level, c) ==
  LET types == birdTypes(cfgLevel(level))
      isBoss == \E i \in 1 .. Len(types) : types[i] = "boss"
      spawnBossOnly == Len(types) = 1 /\ types[1] = "boss"
      f1 == IF isBoss THEN spawnBoss(f, level) ELSE f
  IN IF spawnBossOnly THEN f1 ELSE spawnNormalBird(f1, c)

\* spawnBird without the early return of a boss-only level
spawnBirdNoBossOnly(f, level, c) ==
  LET types == birdTypes(cfgLevel(level))
      isBoss == \E i \in 1 .. Len(types) : types[i] = "boss"
      f1 == IF isBoss /\ ~f.run.bossAlive THEN spawnBoss(f, level) ELSE f
  IN spawnNormalBird(f1, c)

\* spawnBird(now); c holds the draws of pickType and spawnNormalBird
spawnBird(f, level, c) ==
  LET types == birdTypes(cfgLevel(level))
      isBoss == \E i \in 1 .. Len(types) : types[i] = "boss"
      spawnBossOnly == Len(types) = 1 /\ types[1] = "boss"
      f1 == IF isBoss /\ ~f.run.bossAlive THEN spawnBoss(f, level) ELSE f
  IN IF spawnBossOnly THEN f1 ELSE spawnNormalBird(f1, c)

\* the number of hostiles spawnBird pushes
spawnCount(r, level) ==
  LET types == birdTypes(cfgLevel(level))
      isBoss == \E i \in 1 .. Len(types) : types[i] = "boss"
      spawnBossOnly == Len(types) = 1 /\ types[1] = "boss"
  IN (IF isBoss /\ ~r.bossAlive THEN 1 ELSE 0) + (IF spawnBossOnly THEN 0 ELSE 1)

\* the draws of one spawnBird call
spawnDraws(level) ==
  LET kinds == pickType(birdTypes(cfgLevel(level)))
  IN [edge : {"top"}, type : kinds \cap DrawnKinds, x : Cols, side : {0}, y : {-1}]
       \cup [edge : {"side"}, type : kinds \cap DrawnKinds, x : {0}, side : {-1, 1}, y : SideRows]

\* one hostile's motion: b.pos += b.vel * dt
moveBird(b) ==
  [b EXCEPT !.x = @ + b.vx, !.y = @ + b.vy, !.inside = @ \/ (b.x + b.vx) \in Cols]

\* off = b.pos.x < -40 || b.pos.x > cw + 40 || b.pos.y > ch + 40
off(b) == b.x < -1 \/ b.x > NX \/ b.y > NY

\* the filter callback without the shield test: every escape costs a life
escapeNoShield(f, b) ==
  LET f1 == [f EXCEPT !.run.bossAlive = IF b.type = "boss" THEN FALSE ELSE @,
                      !.o.escapes = @ + 1,
                      !.o.outsideEscapes = @ + (IF b.inside THEN 0 ELSE 1)]
      f2 == onLoseLife(f1)
  IN [f2 EXCEPT !.o.bossCharged = @ + (IF b.type = "boss" THEN 1 ELSE 0)]

\* the body of the filter callback for a hostile that has left
escape(f, b) ==
  LET f1 == [f EXCEPT !.run.bossAlive = IF b.type = "boss" THEN FALSE ELSE @,
                      !.o.escapes = @ + 1,
                      !.o.outsideEscapes = @ + (IF b.inside THEN 0 ELSE 1)]
      f2 == IF f1.run.shieldCharges > 0
            THEN [f1 EXCEPT !.run.shieldCharges = @ - 1, !.o.shieldUsed = @ + 1]
            ELSE onLoseLife(f1)
  IN [f2 EXCEPT !.o.bossCharged = @ + (IF b.type = "boss" THEN 1 ELSE 0)]

RECURSIVE cullBirds(_, _, _, _)
cullBirds(f, birds, j, kept) ==
  IF j > Len(birds) THEN [f EXCEPT !.run.birds = kept]
  ELSE IF off(birds[j]) THEN cullBirds(escape(f, birds[j]), birds, j + 1, kept)
       ELSE cullBirds(f, birds, j + 1, Append(kept, birds[j]))

\* handleSpawningAndBirdMotion(dt, cw, ch); spawn is since > interval
handleSpawningAndBirdMotion(f, level, spawn, c) ==
  LET f1 == IF ~f.run.clearingLevel /\ spawn
            THEN spawnBird([f EXCEPT !.o.spawnCalls = @ + 1], level, c)
            ELSE f
      moved == [j \in 1 .. Len(f1.run.birds) |-> moveBird(f1.run.birds[j])]
  IN cullBirds(f1, moved, 1, <<>>)

\* the homing steer of updateBullets: the hostile it picks, or 0
RECURSIVE nearestBird(_, _, _, _, _)
nearestBird(m, birds, j, best, nearest) ==
  IF j > Len(birds) THEN nearest
  ELSE LET b == birds[j]
           dy == m.y - b.y
           dist == Abs(b.x - m.x) + Abs(dy)
       IN IF dy > 0 THEN nearestBird(m, birds, j + 1, best, nearest)
          ELSE IF best < 0 \/ dist < best THEN nearestBird(m, birds, j + 1, dist, j)
          ELSE nearestBird(m, birds, j + 1, best, nearest)

moveBullet(m, birds) ==
  LET t == IF m.kind = "homing" THEN nearestBird(m, birds, 1, -1, 0) ELSE 0
      vx == IF t > 0 THEN clamp(m.vx + Sign(birds[t].x - m.x), -1, 1) ELSE m.vx
  IN [m EXCEPT !.vx = vx, !.x = @ + vx, !.y = @ - 1]

\* updateBullets(dt): steer, move, and drop the bullets above the top (m.pos.y + m.h > 0)
updateBullets(f) ==
  LET moved == [i \in 1 .. Len(f.run.bullets) |-> moveBullet(f.run.bullets[i], f.run.birds)]
  IN [f EXCEPT !.run.bullets = SelectSeq(moved, LAMBDA m : m.y >= 0)]

\* the first hostile, in collection order, that bullet m overlaps, or 0
firstOverlap(m, birds) ==
  LET js == {j \in 1 .. Len(birds) : rectsIntersect(rectOf(m), rectOf(birds[j]))}
  IN IF js = {} THEN 0 ELSE CHOOSE j \in js : \A k \in js : j <= k

\* computeBulletBirdImpacts without the break of the inner loop: a bullet counts on every
\* hostile it overlaps
computeBulletBirdImpactsNoBreak(bullets, birds) ==
  [bulletHits |-> {i \in 1 .. Len(bullets) : firstOverlap(bullets[i], birds) > 0},
   birdHitCount |-> [j \in 1 .. Len(birds) |->
                       Cardinality({i \in 1 .. Len(bullets) :
                                      rectsIntersect(rectOf(bullets[i]), rectOf(birds[j]))})]]

\* computeBulletBirdImpacts()
computeBulletBirdImpacts(bullets, birds) ==
  [bulletHits |-> {i \in 1 .. Len(bullets) : firstOverlap(bullets[i], birds) > 0},
   birdHitCount |-> [j \in 1 .. Len(birds) |->
                       Cardinality({i \in 1 .. Len(bullets) : firstOverlap(bullets[i], birds) = j})]]

\* history: count the hit on every bullet recorded as hit
markHits(bullets, bulletHits) ==
  [i \in 1 .. Len(bullets) |->
     IF i \in bulletHits THEN [bullets[i] EXCEPT !.hits = @ + 1] ELSE bullets[i]]

RECURSIVE filterLoopDropHit(_, _, _)
\* the loop of filterHitBullets without the pierce test: every hit bullet is dropped
filterLoopDropHit(bullets, bulletHits, i) ==
  IF i > Len(bullets) THEN <<>>
  ELSE (IF i \notin bulletHits THEN <<bullets[i]>> ELSE <<>>)
         \o filterLoopDropHit(bullets, bulletHits, i + 1)

RECURSIVE filterLoop(_, _, _)
filterLoop(bullets, bulletHits, i) ==
  IF i > Len(bullets) THEN <<>>
  ELSE LET b == bullets[i]
       IN (IF i \notin bulletHits THEN <<b>>
           ELSE IF b.pierce > 1 THEN <<[b EXCEPT !.pierce = b.pierce - 1]>>
           ELSE <<>>) \o filterLoop(bullets, bulletHits, i + 1)

\* filterHitBullets that keeps a hit bullet while its pierce is at least 1
filterHitBulletsKeepSpent(bullets, bulletHits) ==
  [i \in 1 .. Len(bullets) |->
     IF i \in bulletHits THEN [bullets[i] EXCEPT !.pierce = @ - 1] ELSE bullets[i]]

\* filterHitBullets(bulletHits)
filterHitBullets(bullets, bulletHits) == filterLoop(bullets, bulletHits, 1)

\* the damage loop with the survival test b.hp >= 0
RECURSIVE damageLoopKeepZero(_, _, _, _, _, _, _)
damageLoopKeepZero(f, birds, j, survivors, birdHitCount, level, drops) ==
  IF j > Len(birds) THEN [f EXCEPT !.run.birds = survivors]
  ELSE LET b == [birds[j] EXCEPT !.hp = @ - birdHitCount[j], !.dmg = @ + birdHitCount[j]]
       IN IF b.hp >= 0
          THEN damageLoopKeepZero(f, birds, j + 1, Append(survivors, b), birdHitCount,
                                  level, drops)
          ELSE damageLoopKeepZero(awardOnKill(f, b, level, drops[j]), birds, j + 1,
                                  survivors, birdHitCount, level, drops)

RECURSIVE damageLoop(_, _, _, _, _, _, _)
\* struck is history: the hp this pass has taken from each hostile, in collection order
damageLoop(f, birds, j, survivors, birdHitCount, level, drops) ==
  IF j > Len(birds) THEN [f EXCEPT !.run.birds = survivors]
  ELSE LET b == [birds[j] EXCEPT !.hp = @ - birdHitCount[j], !.dmg = @ + birdHitCount[j]]
           g == [f EXCEPT !.struck = Append(@, birds[j].hp - b.hp)]
       IN IF b.hp > 0
          THEN damageLoop(g, birds, j + 1, Append(survivors, b), birdHitCount, level, drops)
          ELSE damageLoop(awardOnKill(g, b, level, drops[j]), birds, j + 1, survivors,
                          birdHitCount, level, drops)

\* applyDamageAndRewards(birdHitCount)
applyDamageAndRewards(f, birdHitCount, level, drops) ==
  damageLoop(f, f.run.birds, 1, <<>>, birdHitCount, level, drops)

\* resolveBulletBirdCollisions()
resolveBulletBirdCollisions(f, level, drops) ==
  LET imp == computeBulletBirdImpacts(f.run.bullets, f.run.birds)
      pre == markHits(f.run.bullets, imp.bulletHits)
      post == filterHitBullets(pre, imp.bulletHits)
      f1 == [f EXCEPT !.run.bullets = post,
                      !.o.hits = @ + Cardinality(imp.bulletHits),
                      !.o.pre = f.run.bullets, !.o.hit = imp.bulletHits, !.o.post = post]
  IN notePass(f, applyDamageAndRewards(f1, imp.birdHitCount, level, drops))

collisionKilled(r) ==
  LET imp == computeBulletBirdImpacts(r.bullets, r.birds)
  IN {j \in 1 .. Len(r.birds) : r.birds[j].hp - imp.birdHitCount[j] <= 0}

\* the pickup branch of updatePowerUpsAndPickups
pickup(f, pu) ==
  [f EXCEPT !.run.rapidOn = IF pu.type = "rapid" THEN TRUE ELSE @,
            !.run.doubleOn = IF pu.type = "double" THEN TRUE ELSE @,
            !.run.shieldCharges = IF pu.type = "shield" THEN @ + 1 ELSE @,
            !.o.picked = @ + 1,
            !.o.shieldPicked = @ + (IF pu.type = "shield" THEN 1 ELSE 0)]

\* the filter of updatePowerUpsAndPickups returning true for a power-up it has applied
RECURSIVE pickupLoopKeep(_, _, _, _)
pickupLoopKeep(f, pus, i, kept) ==
  IF i > Len(pus) THEN [f EXCEPT !.run.powerUps = kept]
  ELSE LET pu == pus[i]
           hit == rectsIntersect([x |-> f.run.playerX, y |-> PlayerRow, w |-> 1, h |-> 1],
                                 rectOf(pu))
       IN IF hit THEN pickupLoopKeep(pickup(f, pu), pus, i + 1, Append(kept, pu))
          ELSE pickupLoopKeep(f, pus, i + 1, IF pu.y < NY THEN Append(kept, pu) ELSE kept)

RECURSIVE pickupLoop(_, _, _, _)
pickupLoop(f, pus, i, kept) ==
  IF i > Len(pus) THEN [f EXCEPT !.run.powerUps = kept]
  ELSE LET pu == pus[i]
           hit == rectsIntersect([x |-> f.run.playerX, y |-> PlayerRow, w |-> 1, h |-> 1],
                                 rectOf(pu))
       IN IF hit THEN pickupLoop(pickup(f, pu), pus, i + 1, kept)
          ELSE pickupLoop(f, pus, i + 1, IF pu.y < NY THEN Append(kept, pu) ELSE kept)

\* updatePowerUpsAndPickups(dt, ch): a power-up falls one cell per frame
updatePowerUpsAndPickups(f) ==
  LET moved == [i \in 1 .. Len(f.run.powerUps) |-> [f.run.powerUps[i] EXCEPT !.y = @ + 1]]
  IN pickupLoop(f, moved, 1, <<>>)

\* update(dt) without the test: the simulation is never suspended
clearingIgnored(r) == FALSE

\* update(dt): the test of clearingLevelRef.current that suspends the simulation
clearing(r) == r.clearingLevel

----------------------------------------------------------------------------
(* The inputs of one frame, kept inside the bounds *)

PowerUpTypeSet == {PowerUpTypes[i] : i \in 1 .. Len(PowerUpTypes)}

shieldsHeld(r) ==
  r.shieldCharges + Cardinality({i \in 1 .. Len(r.powerUps) : r.powerUps[i].type = "shield"})

\* Math.random() < cfg.powerUpRate and the type drawn, for every hostile killed in a pass
dropDraws(killed, r) ==
  {d \in [killed -> {"none"} \cup PowerUpTypeSet] :
     /\ Cardinality({j \in killed : d[j] # "none"}) <= MaxPowerUps - Len(r.powerUps)
     /\ Cardinality({j \in killed : d[j] = "shield"}) <= MaxShield - shieldsHeld(r)}

\* the deadlines that can have passed since the last frame
expiries(r) ==
  [rapid : IF r.rapidOn THEN BOOLEAN ELSE {FALSE},
   double : IF r.doubleOn THEN BOOLEAN ELSE {FALSE},
   laser : IF r.laserOn THEN BOOLEAN ELSE {FALSE}]

expire(r, e) ==
  [r EXCEPT !.rapidOn = @ /\ ~e.rapid, !.doubleOn = @ /\ ~e.double, !.laserOn = @ /\ ~e.laser]

\* keys left / right: the axis values that move the player, and none
axes(r) == {a \in {-1, 0, 1} : a = 0 \/ clamp(r.playerX + a, 0, NX - 1) # r.playerX}

fireIntents(r, level) ==
  IF r.shootCooldown - DtMs <= 0
     /\ Len(r.bullets) + Len(shotBullets(r, getUpgrade(level))) <= MaxBullets
  THEN BOOLEAN ELSE {FALSE}

laserDues(r, level) == IF level >= LaserLevel /\ ~r.laserOn THEN BOOLEAN ELSE {FALSE}

spawnDecisions(r, level) ==
  IF Len(r.birds) + spawnCount(r, level) <= MaxBirds THEN BOOLEAN ELSE {FALSE}

----------------------------------------------------------------------------
(* The state machine *)

RECURSIVE scoreBefore(_)
\* the score with which a level is entered when every earlier level was cleared at
\* exactly its target: the kill points and the bonus of each
scoreBefore(level) ==
  IF level <= 1 THEN 0
  ELSE scoreBefore(level - 1) + targetScore(level - 1) + (targetScore(level - 1) \div 10)

noHist == [scheduled |-> 0, sessions |-> 0, frames |-> 0, emitted |-> 0]

\* App as constructed (useReducer's initializer), GameCanvas not mounted
InitConstructed ==
  /\ storage = NoItem
  /\ state = [mode |-> "start", score |-> 0, highScore |-> getHighScore(storage), session |-> 0,
              level |-> 1, lives |-> InitialLives]
  /\ run = sessionReset

\* a session of one of the StartLevels at a frame boundary with no entity alive, a few
\* kills short of the target
InitInSession ==
  \E level \in StartLevels, short \in StartShort, lives \in StartLives :
    LET progress == Max(0, targetScore(level) - short * 10 * scoreMultiplier(level))
        score == scoreBefore(level) + progress
    IN /\ storage = String(score)
       /\ state = [mode |-> "playing", score |-> score, highScore |-> score,
                   session |-> level, level |-> level, lives |-> lives]
       /\ run = [sessionReset EXCEPT !.levelProgress = progress]

Init ==
  /\ InitConstructed \/ InitInSession
  /\ timers = <<>>
  /\ hist = [noHist EXCEPT !.emitted = run.levelProgress]
  /\ obs = noObs

\* the refs after the App has gone from st to st2
refsAfter(st, st2, r) ==
  IF ~Mounted(st2) \/ ~Mounted(st) \/ st2.session # st.session THEN sessionReset ELSE r

histAfter(st, st2, h) ==
  IF st2.session # st.session
  THEN [h EXCEPT !.scheduled = 0, !.sessions = @ + 1, !.emitted = 0]
  ELSE h

\* the end of update(dt): the dispatched actions are reduced, the timeouts are pending
finishFrame(f) ==
  LET r == dispatchAll(state, storage, f.events)
  IN /\ state' = r.state
     /\ storage' = r.storage
     /\ run' = refsAfter(state, r.state, f.run)
     /\ timers' = timers \o [i \in 1 .. f.o.timeouts |-> [session |-> state.session]]
     /\ hist' = [hist EXCEPT !.scheduled = @ + f.o.timeouts, !.frames = @ + 1,
                             !.emitted = @ + f.o.scored]
     /\ obs' = f.o

\* step -> update(dt), with running = (mode = 'playing')
Frame ==
  /\ state.mode = "playing"
  /\ hist.frames < MaxFrames
  /\ \E e \in expiries(run) :
     \E r0 \in {expire(run, e)} :
     \E dl \in dropDraws(laserKilled(r0), r0) :
     \E f1 \in {applyLaserDamageIfActive(frameStart(r0), state.level, dl)} :
     \E axis \in axes(f1.run), fire \in fireIntents(f1.run, state.level),
        due \in laserDues(f1.run, state.level) :
     \E f2 \in {handlePlayerAndShooting(f1, state.level, axis, fire, due)} :
       IF clearing(f2.run)
       THEN finishFrame(f2)
       ELSE \E spawn \in spawnDecisions(f2.run, state.level) :
            \E c \in (IF spawn THEN spawnDraws(state.level) ELSE {[edge |-> "none"]}) :
            \E f4 \in {updateBullets(handleSpawningAndBirdMotion(f2, state.level, spawn, c))} :
            \E dc \in dropDraws(collisionKilled(f4.run), f4.run) :
            \E f6 \in {updatePowerUpsAndPickups(resolveBulletBirdCollisions(f4, state.level, dc))} :
              finishFrame(f6)

\* a dispatch from a button, a key or a timer, and the effects that follow the render
Dispatch(action, o) ==
  LET r == reducer(state, storage, action)
  IN /\ state' = r.state
     /\ storage' = r.storage
     /\ run' = refsAfter(state, r.state, run)
     /\ hist' = histAfter(state, r.state, hist)
     /\ obs' = o

\* PLAY on the start screen, Restart on the game-over screen
Start ==
  /\ state.mode \in {"start", "gameover"}
  /\ hist.sessions < MaxSession
  /\ Dispatch([type |-> "START"], [noObs EXCEPT !.kind = "START"])
  /\ UNCHANGED timers

\* key P while playing
Pause ==
  /\ state.mode = "playing"
  /\ Dispatch([type |-> "PAUSE"], obs)
  /\ UNCHANGED timers

\* key P while paused, RESUME of the pause menu
Resume ==
  /\ state.mode = "paused"
  /\ Dispatch([type |-> "RESUME"], obs)
  /\ UNCHANGED timers

\* QUIT of the pause menu and of the game-over screen, Restart of the victory screen
Quit ==
  /\ state.mode \in {"paused", "gameover", "victory"}
  /\ Dispatch([type |-> "RESET"], [noObs EXCEPT !.kind = "RESET"])
  /\ UNCHANGED timers

\* a timeout that is delivered only while the game is running
LevelClearedTimerWhilePlaying ==
  /\ timers # <<>>
  /\ state.mode = "playing"
  /\ Dispatch([type |-> "LEVEL_CLEARED"],
              [noObs EXCEPT !.kind = "LEVEL_CLEARED",
                            !.stale = Head(timers).session # state.session])
  /\ timers' = Tail(timers)

\* the callback of setTimeout(() => { onLevelCleared() }, 1200)
LevelClearedTimer ==
  /\ timers # <<>>
  /\ Dispatch([type |-> "LEVEL_CLEARED"],
              [noObs EXCEPT !.kind = "LEVEL_CLEARED",
                            !.stale = Head(timers).session # state.session,
                            !.whilePaused = state.mode = "paused"])
  /\ timers' = Tail(timers)

Next == Frame \/ Start \/ Pause \/ Resume \/ Quit \/ LevelClearedTimer

Spec == Init /\ [][Next]_vars

\* the browser runs the callback of every setTimeout that is not cancelled, and the
\* code calls no clearTimeout
SpecLive == Init /\ [][Next]_vars /\ WF_vars(LevelClearedTimer)

----------------------------------------------------------------------------
(* The expiry timestamps of the buffs, with the clock in milliseconds.  run holds *)
(* the reading of performance.now() and the two refs; the App is not involved.   *)

RapidMs == 10000
DoubleMs == 15000

\* the readings of performance.now(), 2500 ms apart
Clock == {t * 2500 : t \in 0 .. MaxTicks}

\* an expiry that stacks the duration on the previous expiry
pickupUntilStacked(prev, nowT, ms) == prev + ms

\* Math.max(rapidUntilRef.current, nowT + 10000)
pickupUntil(prev, nowT, ms) == Max(prev, nowT + ms)

\* the pickup branch of updatePowerUpsAndPickups on the timestamps
pickupAt(r, type) ==
  [r EXCEPT !.rapidUntil = IF type = "rapid" THEN pickupUntil(@, r.now, RapidMs) ELSE @,
            !.doubleUntil = IF type = "double" THEN pickupUntil(@, r.now, DoubleMs) ELSE @]

appIdle == [mode |-> "playing", score |-> 0, highScore |-> 0, session |-> 1, level |-> 1,
            lives |-> InitialLives]

InitBuff ==
  /\ state = appIdle
  /\ storage = NoItem
  /\ timers = <<>>
  /\ hist = noHist
  /\ \E t \in Clock : run = [now |-> t, rapidUntil |-> 0, doubleUntil |-> 0]
  /\ obs = [kind |-> "init", rapidBefore |-> 0, doubleBefore |-> 0, nowT |-> 0]

\* performance.now() is read later
ClockTick ==
  /\ \E t \in Clock :
       /\ t > run.now
       /\ run' = [run EXCEPT !.now = t]
  /\ obs' = [kind |-> "tick", rapidBefore |-> run.rapidUntil,
             doubleBefore |-> run.doubleUntil, nowT |-> run.now]
  /\ UNCHANGED <<state, storage, timers, hist>>

\* the player overlaps a power-up
PickupAt ==
  /\ \E type \in PowerUpTypeSet :
       /\ run' = pickupAt(run, type)
       /\ obs' = [kind |-> type, rapidBefore |-> run.rapidUntil,
                  doubleBefore |-> run.doubleUntil, nowT |-> run.now]
  /\ UNCHANGED <<state, storage, timers, hist>>

\* the session reset effect: rapidUntilRef.current = 0, doubleUntilRef.current = 0
SessionResetAt ==
  /\ run' = [run EXCEPT !.rapidUntil = 0, !.doubleUntil = 0]
  /\ obs' = [kind |-> "reset", rapidBefore |-> run.rapidUntil,
             doubleBefore |-> run.doubleUntil, nowT |-> run.now]
  /\ UNCHANGED <<state, storage, timers, hist>>

NextBuff == ClockTick \/ PickupAt \/ SessionResetAt

SpecBuff == InitBuff /\ [][NextBuff]_vars

----------------------------------------------------------------------------
(* The tables of the levels: pickType and the emission of tryShoot as functions  *)
(* of the level, for every level.  run holds the level and the double buff.      *)

\* pickType(types) when Math.floor(rand(0, pool.length)) is i - 1
pickTypeAt(types, i) ==
  LET pool == pickPool(types)
  IN IF Len(pool) > 0 THEN pool[i] ELSE "simple"

InitTable ==
  /\ state = appIdle
  /\ storage = NoItem
  /\ timers = <<>>
  /\ hist = noHist
  /\ \E level \in 1 .. NumLevels, double \in BOOLEAN :
       run = [level |-> level, doubleOn |-> double, playerX |-> CenterCol]
  /\ obs = [kind |-> "init", pool |-> <<>>, index |-> 0, result |-> "", bullets |-> <<>>]

\* const type = pickType(types)
PickKind ==
  /\ LET pool == pickPool(birdTypes(cfgLevel(run.level)))
     IN \E i \in 1 .. Max(1, Len(pool)) :
          obs' = [kind |-> "pick", pool |-> pool, index |-> i,
                  result |-> pickTypeAt(birdTypes(cfgLevel(run.level)), i), bullets |-> <<>>]
  /\ UNCHANGED <<state, storage, run, timers, hist>>

\* fireBullets and the side bullets of tryShoot
Emit ==
  /\ obs' = [kind |-> "emit", pool |-> <<>>, index |-> 0, result |-> "",
             bullets |-> shotBullets(run, getUpgrade(run.level))]
  /\ UNCHANGED <<state, storage, run, timers, hist>>

NextTable == PickKind \/ Emit

SpecTable == InitTable /\ [][NextTable]_vars

-----------------------------------------------------------------------------
(* The frame clock: the spawn decision and the cadence of the beam against the   *)
(* readings of performance.now(), in ms.  run holds the reading and the four     *)
(* timestamps lastSpawn, laserUntil, laserNextAt and, as history, the readings   *)
(* of the last spawn decision and of the last activation of the beam (-1: none). *)
(* state holds the level and the mode.  One reading per frame; no level clear    *)
(* is in progress in a frame.                                                    *)

LaserMs == 3000
LaserFinalMs == 6000
LaserEveryMs == 30000

\* the time between two readings of performance.now(): a frame, a stall, a long stall
ClockGaps == {200, 3000, 30000}
\* rand(0.7, 1.3), in tenths
Jitters == {7, 10, 13}
ClockLevels == {29, 30, 49, 50}

\* the session effect on the timestamps
sessionResetAt(r) ==
  [r EXCEPT !.lastSpawn = r.now, !.laserUntil = 0, !.laserNextAt = 0]

\* the main loop effect: the laser cadence setup
laserSetupAt(r, level) ==
  IF level >= LaserLevel /\ r.laserNextAt = 0
  THEN [r EXCEPT !.laserNextAt = r.now + LaserEveryMs]
  ELSE r

\* an activation that leaves the next activation where it was
updateLaserCadenceKeepNext(r, level) ==
  IF level >= LaserLevel /\ r.now >= r.laserNextAt /\ r.laserUntil < r.now
  THEN [r EXCEPT !.laserUntil = r.now + (IF level >= 50 THEN LaserFinalMs ELSE LaserMs),
                 !.activatedAt = r.now]
  ELSE r

\* updateLaserCadence(now) on the timestamps
updateLaserCadenceAt(r, level) ==
  IF level >= LaserLevel /\ r.now >= r.laserNextAt /\ r.laserUntil < r.now
  THEN [r EXCEPT !.laserUntil = r.now + (IF level >= 50 THEN LaserFinalMs ELSE LaserMs),
                 !.laserNextAt = r.now + LaserEveryMs,
                 !.activatedAt = r.now]
  ELSE r

\* applyLaserDamageIfActive passes its early return
beamActiveAt(r) == ~(r.now >= r.laserUntil)

\* a spawn that moves lastSpawn on by the rate of the level
spawnBirdCatchUp(r, level) ==
  [r EXCEPT !.lastSpawn = @ + spawnRate(level), !.decidedAt = r.now]

\* spawnBird(now) on the timestamps: both the boss-only return and the end set lastSpawn
spawnBirdAt(r, level) ==
  [r EXCEPT !.lastSpawn = r.now, !.decidedAt = r.now]

\* since > interval in handleSpawningAndBirdMotion, the jitter in tenths
spawnDue(r, level, jitter) == 10 * (r.now - r.lastSpawn) > spawnRate(cfgLevel(level)) * jitter

\* update(dt) on the timestamps
updateAt(r, level, jitter) ==
  LET r1 == updateLaserCadenceAt(r, level)
  IN IF spawnDue(r1, level, jitter) THEN spawnBirdAt(r1, level) ELSE r1

noClockObs == [kind |-> "init", now |-> 0, lastSpawn |-> 0, laserUntil |-> 0,
               laserNextAt |-> 0, decidedAt |-> -1, activatedAt |-> -1,
               beam |-> FALSE, spawnCall |-> FALSE, introduced |-> 0]

clockObs(kind, r) ==
  [noClockObs EXCEPT !.kind = kind, !.now = r.now, !.lastSpawn = r.lastSpawn,
                     !.laserUntil = r.laserUntil, !.laserNextAt = r.laserNextAt,
                     !.decidedAt = r.decidedAt, !.activatedAt = r.activatedAt]

\* GameCanvas mounts at reading 0: the session effect, then the main loop effect
InitClock ==
  /\ \E level \in ClockLevels : state = [appIdle EXCEPT !.level = level]
  /\ storage = NoItem
  /\ timers = <<>>
  /\ hist = noHist
  /\ run = laserSetupAt(sessionResetAt([now |-> 0, lastSpawn |-> 0, laserUntil |-> 0,
                                        laserNextAt |-> 0, decidedAt |-> -1,
                                        activatedAt |-> -1]), state.level)
  /\ obs = noClockObs

\* requestAnimationFrame calls step while running: update(dt) at a later reading
ClockFrame ==
  /\ state.mode = "playing"
  /\ hist.frames < MaxClockSteps
  /\ \E gap \in ClockGaps, jitter \in Jitters, bossAlive \in BOOLEAN :
       LET r == [run EXCEPT !.now = @ + gap]
           called == spawnDue(updateLaserCadenceAt(r, state.level), state.level, jitter)
       IN /\ run' = updateAt(r, state.level, jitter)
          /\ obs' = [clockObs("frame", r) EXCEPT
                       !.beam = beamActiveAt(r),
                       !.spawnCall = called,
                       !.introduced = IF called
                                      THEN spawnCount([bossAlive |-> bossAlive], state.level)
                                      ELSE 0]
  /\ hist' = [hist EXCEPT !.frames = @ + 1]
  /\ UNCHANGED <<state, storage, timers>>

\* time passes while the game is paused: no frame runs
ClockPausedWait ==
  /\ state.mode = "paused"
  /\ hist.frames < MaxClockSteps
  /\ \E gap \in ClockGaps : run' = [run EXCEPT !.now = @ + gap]
  /\ obs' = clockObs("wait", run)
  /\ hist' = [hist EXCEPT !.frames = @ + 1]
  /\ UNCHANGED <<state, storage, timers>>

\* PAUSE and RESUME: the main loop effect runs again on resume
ClockPause ==
  /\ state.mode = "playing"
  /\ state' = reducer(state, storage, [type |-> "PAUSE"]).state
  /\ obs' = clockObs("pause", run)
  /\ UNCHANGED <<storage, run, timers, hist>>

ClockResume ==
  /\ state.mode = "paused"
  /\ state' = reducer(state, storage, [type |-> "RESUME"]).state
  /\ run' = laserSetupAt(run, state.level)
  /\ obs' = clockObs("resume", run)
  /\ UNCHANGED <<storage, timers, hist>>

\* LEVEL_CLEARED below the final level, into a level of ClockLevels: the session effect,
\* then the main loop effect
ClockLevelCleared ==
  /\ state.mode = "playing"
  /\ state.level < FinalLevel
  /\ state.level + 1 \in ClockLevels
  /\ state' = reducer(state, storage, [type |-> "LEVEL_CLEARED"]).state
  /\ run' = laserSetupAt(sessionResetAt(run), state'.level)
  /\ obs' = clockObs("cleared", run)
  /\ UNCHANGED <<storage, timers, hist>>

NextClock == ClockFrame \/ ClockPausedWait \/ ClockPause \/ ClockResume \/ ClockLevelCleared

SpecClock == InitClock /\ [][NextClock]_vars

-----------------------------------------------------------------------------
(* The fire control: handlePlayerAndShooting and tryShoot frame after frame.     *)
(* run holds shootCooldown and the rapid buff and, as history, the frames since  *)
(* the last emission (counted up to MaxQuiet), the value that emission reset the *)
(* cooldown to (0: no emission yet) and whether the session effect has run since *)
(* then.  state holds the level.  The bullets leave this specification as soon   *)
(* as they are counted.                                                          *)

ShootLevels == {1, 9, 10, 39, 40, 49, 50}

noShootObs == [kind |-> "init", fired |-> 0, fire |-> FALSE, cooldownBefore |-> 0,
               rapidActive |-> FALSE, quiet |-> 0, resetTo |-> 0, resetSince |-> FALSE]

InitShoot ==
  /\ \E level \in ShootLevels : state = [appIdle EXCEPT !.level = level]
  /\ storage = NoItem
  /\ timers = <<>>
  /\ hist = noHist
  /\ run = [shootCooldown |-> 0, rapidOn |-> FALSE, quiet |-> 0, resetTo |-> 0,
            resetSince |-> FALSE]
  /\ obs = noShootObs

\* update(dt): handlePlayerAndShooting; rapidUntil may have passed since the last frame
ShootFrame ==
  /\ \E fire \in BOOLEAN, expired \in (IF run.rapidOn THEN BOOLEAN ELSE {FALSE}) :
       LET rapid == run.rapidOn /\ ~expired
           r == [sessionReset EXCEPT !.shootCooldown = run.shootCooldown, !.rapidOn = rapid]
           f == handlePlayerAndShooting(frameStart(r), state.level, 0, fire, FALSE)
           fired == f.o.fired > 0
       IN /\ run' = [shootCooldown |-> f.run.shootCooldown,
                     rapidOn |-> rapid,
                     quiet |-> IF fired THEN 0 ELSE Min(MaxQuiet, run.quiet + 1),
                     resetTo |-> IF fired THEN f.run.shootCooldown ELSE run.resetTo,
                     resetSince |-> IF fired THEN FALSE ELSE run.resetSince]
          /\ obs' = [kind |-> "frame", fired |-> f.o.fired, fire |-> fire,
                     cooldownBefore |-> run.shootCooldown, rapidActive |-> rapid,
                     quiet |-> run.quiet, resetTo |-> run.resetTo,
                     resetSince |-> run.resetSince]
  /\ UNCHANGED <<state, storage, timers, hist>>

\* the rapid power-up is picked up
ShootPickupRapid ==
  /\ ~run.rapidOn
  /\ run' = [run EXCEPT !.rapidOn = TRUE]
  /\ obs' = [noShootObs EXCEPT !.kind = "pickup"]
  /\ UNCHANGED <<state, storage, timers, hist>>

\* LEVEL_CLEARED below the final level, into a level of ShootLevels: the session effect
ShootSessionReset ==
  /\ state.level < FinalLevel
  /\ state.level + 1 \in ShootLevels
  /\ state' = reducer(state, storage, [type |-> "LEVEL_CLEARED"]).state
  /\ run' = [run EXCEPT !.shootCooldown = sessionReset.shootCooldown,
                        !.rapidOn = sessionReset.rapidOn,
                        !.resetSince = TRUE]
  /\ obs' = [noShootObs EXCEPT !.kind = "reset"]
  /\ UNCHANGED <<storage, timers, hist>>

NextShoot == ShootFrame \/ ShootPickupRapid \/ ShootSessionReset

SpecShoot == InitShoot /\ [][NextShoot]_vars

----------------------------------------------------------------------------
(* The homing steer: the steer and move of updateBullets as a function of one    *)
(* homing bullet and the hostiles, on a playfield of several columns.  y grows   *)
(* downwards and a bullet travels upwards (its vel.y is negative), so a hostile  *)
(* ahead of a bullet has a smaller y.  run holds the bullet and the hostiles.    *)

HomingXs == 0 .. 2
HomingYs == 0 .. 2
HomingLevel == 35
MaxTargets == 2

InitHoming ==
  /\ state = [appIdle EXCEPT !.level = HomingLevel]
  /\ storage = NoItem
  /\ timers = <<>>
  /\ hist = noHist
  /\ \E x \in HomingXs, y \in HomingYs, vx \in {-1, 0, 1}, n \in 0 .. MaxTargets :
       \E birds \in [1 .. n -> [x : HomingXs, y : HomingYs]] :
         run = [m |-> newBullet(x, y, vx, getUpgrade(state.level)), birds |-> birds]
  /\ obs = [kind |-> "init", target |-> 0, after |-> <<>>]

\* the forEach body of updateBullets for the bullet
Steer ==
  /\ obs' = [kind |-> "steer",
             target |-> nearestBird(run.m, run.birds, 1, -1, 0),
             after |-> moveBullet(run.m, run.birds)]
  /\ UNCHANGED <<state, storage, run, timers, hist>>

NextHoming == Steer

SpecHoming == InitHoming /\ [][NextHoming]_vars

----------------------------------------------------------------------------
(* The position of the player in virtual units: the onResize effect, the session *)
(* effect and the motion of handlePlayerAndShooting.  Lengths are whole numbers  *)
(* of Unit-ths of a virtual unit, which is exact for MaxPlayerFrames frames of   *)
(* acceleration 0.45 * 1.2 and friction 0.9.  run holds pos.x, pos.y, vel.x, the *)
(* size of the canvas and the devicePixelRatio; twice the scale of onResize is   *)
(* drawn from Scales2.                                                           *)

VIRTUAL_W == 480
VIRTUAL_H == 270
PlayerW == 40
Unit == 1000000
Scales2 == {1, 2, 3, 4}
Dprs == {1, 2}

\* onResize(): the canvas takes the scale of the window, the player the virtual centre
onResize(r, scale2) ==
  [r EXCEPT !.canvasW = (VIRTUAL_W * scale2 * r.dpr) \div 2,
            !.canvasH = (VIRTUAL_H * scale2 * r.dpr) \div 2,
            !.x = (VIRTUAL_W * Unit) \div 2,
            !.y = (VIRTUAL_H - 40) * Unit]

\* the session effect on the player: w = canvas.width / dpr, h = canvas.height / dpr
sessionResetPlayer(r) ==
  LET w == (r.canvasW * Unit) \div r.dpr
      h == (r.canvasH * Unit) \div r.dpr
  IN [r EXCEPT !.x = w \div 2, !.y = h - 40 * Unit, !.vx = 0]

\* the motion of handlePlayerAndShooting(dt, cw), cw = VIRTUAL_W
movePlayer(r, axis) ==
  LET v1 == IF axis # 0 THEN r.vx + axis * ((45 * 12 * Unit) \div 1000) ELSE r.vx
      v2 == Sign(v1) * ((Abs(v1) * 9) \div 10)
  IN [r EXCEPT !.vx = v2,
               !.x = clamp(r.x + v2, (PlayerW * Unit) \div 2,
                           VIRTUAL_W * Unit - (PlayerW * Unit) \div 2)]

\* GameCanvas mounts: the onResize effect, then the session effect
InitPlayer ==
  /\ state = appIdle
  /\ storage = NoItem
  /\ timers = <<>>
  /\ hist = noHist
  /\ \E scale2 \in Scales2, dpr \in Dprs :
       run = sessionResetPlayer(onResize([x |-> 0, y |-> 0, vx |-> 0, canvasW |-> 0,
                                          canvasH |-> 0, dpr |-> dpr], scale2))
  /\ obs = [kind |-> "mount"]

PlayerFrame ==
  /\ hist.frames < MaxPlayerFrames
  /\ \E axis \in {-1, 0, 1} : run' = movePlayer(run, axis)
  /\ hist' = [hist EXCEPT !.frames = @ + 1]
  /\ obs' = [kind |-> "frame"]
  /\ UNCHANGED <<state, storage, timers>>

\* the window's resize event
WindowResize ==
  /\ \E scale2 \in Scales2 : run' = onResize(run, scale2)
  /\ obs' = [kind |-> "resize"]
  /\ UNCHANGED <<state, storage, timers, hist>>

\* LEVEL_CLEARED below the final level: the session effect
PlayerSessionReset ==
  /\ run' = sessionResetPlayer(run)
  /\ obs' = [kind |-> "reset"]
  /\ UNCHANGED <<state, storage, timers, hist>>

NextPlayer == PlayerFrame \/ WindowResize \/ PlayerSessionReset

SpecPlayer == InitPlayer /\ [][NextPlayer]_vars

----------------------------------------------------------------------------
(* The combo: comboRef beside the refs that the session effect assigns, from the *)
(* mount of level 1 through its clear.  run holds the refs, comboRef, the        *)
(* reading of performance.now() and the reading at which the pending timeout of  *)
(* the level clear is due (0: none).                                             *)

ComboMs == 800
LevelClearMs == 1200
ComboGaps == {400, 1200}

\* the combo lines of awardOnKill at reading nowT
comboOnKill(combo, nowT) ==
  [count |-> IF nowT - combo.lastHit < ComboMs THEN combo.count + 1 ELSE 1,
   lastHit |-> nowT]

\* the session effect: it assigns the refs of sessionReset, and comboRef is not among them
sessionResetCombo(r) == [r EXCEPT !.refs = sessionReset, !.dueAt = 0]

\* GameCanvas mounts at level 1, one second after the page was loaded
InitCombo ==
  /\ state = appIdle
  /\ storage = NoItem
  /\ timers = <<>>
  /\ hist = noHist
  /\ run = sessionResetCombo([refs |-> sessionReset, combo |-> [lastHit |-> 0, count |-> 0],
                              now |-> 1000, dueAt |-> 0])
  /\ obs = [kind |-> "mount"]

\* performance.now() is read later
ComboTick ==
  /\ hist.frames < MaxComboSteps
  /\ \E gap \in ComboGaps : run' = [run EXCEPT !.now = @ + gap]
  /\ hist' = [hist EXCEPT !.frames = @ + 1]
  /\ obs' = [kind |-> "tick"]
  /\ UNCHANGED <<state, storage, timers>>

\* awardOnKill(b) for a simple hostile, in a frame in which no clear is in progress
ComboKill ==
  /\ ~run.refs.clearingLevel
  /\ LET b == [type |-> "simple", x |-> CenterCol, y |-> 0, hp |-> 0, k |-> 1, dmg |-> 1]
         f == awardOnKill(frameStart(run.refs), b, state.level, "none")
     IN run' = [run EXCEPT !.refs = f.run,
                           !.combo = comboOnKill(@, run.now),
                           !.dueAt = IF f.o.timeouts > 0 THEN run.now + LevelClearMs ELSE @]
  /\ obs' = [kind |-> "kill"]
  /\ UNCHANGED <<state, storage, timers, hist>>

\* the timeout of the level clear: LEVEL_CLEARED, then the session effect
ComboLevelCleared ==
  /\ run.dueAt > 0
  /\ run.now >= run.dueAt
  /\ state.level < MaxComboLevel
  /\ state' = reducer(state, storage, [type |-> "LEVEL_CLEARED"]).state
  /\ run' = sessionResetCombo(run)
  /\ obs' = [kind |-> "reset"]
  /\ UNCHANGED <<storage, timers, hist>>

NextCombo == ComboTick \/ ComboKill \/ ComboLevelCleared

SpecCombo == InitCombo /\ [][NextCombo]_vars

----------------------------------------------------------------------------
(* The App alone: the reducer under every dispatch the App makes, from the       *)
(* constructed App and from sessions of the last levels.  run holds the number   *)
(* of pending timeouts of a level clear; obs holds the dispatched action and the *)
(* state before it.  LEVEL_CLEARED is taken at the levels of AppLevels, which    *)
(* keeps lives, doubled at every clear, within the integers of the checker.      *)

AppLevels == {1, 2, 48, 49, 50}
AppStartLevels == {48, 49, 50}

InitApp ==
  /\ \/ /\ storage = NoItem
        /\ state = [mode |-> "start", score |-> 0, highScore |-> getHighScore(storage), session |-> 0,
                    level |-> 1, lives |-> InitialLives]
     \/ \E level \in AppStartLevels, lives \in StartLives :
          /\ storage = String(scoreBefore(level))
          /\ state = [mode |-> "playing", score |-> scoreBefore(level),
                      highScore |-> scoreBefore(level), session |-> level,
                      level |-> level, lives |-> lives]
  /\ run = [pending |-> 0]
  /\ timers = <<>>
  /\ hist = noHist
  /\ obs = [kind |-> "init", before |-> state]

\* a dispatch whose reducer does not write the localStorage item
AppDispatchNoWrite(action) ==
  LET r == reducer(state, storage, action)
  IN /\ state' = r.state
     /\ storage' = storage
     /\ obs' = [kind |-> action.type, before |-> state]

\* dispatch(action)
AppDispatch(action) ==
  LET r == reducer(state, storage, action)
  IN /\ state' = r.state
     /\ storage' = r.storage
     /\ obs' = [kind |-> action.type, before |-> state]

\* PLAY, Restart, key P, RESUME and QUIT: the dispatches of the App's own controls
AppControl ==
  /\ \E type \in {"START", "PAUSE", "RESUME", "RESET"} :
       /\ type = "START" => state.mode \in {"start", "gameover"} /\ hist.sessions < MaxSession
       /\ type = "PAUSE" => state.mode = "playing"
       /\ type = "RESUME" => state.mode = "paused"
       /\ type = "RESET" => state.mode \in {"paused", "gameover", "victory"}
       /\ AppDispatch([type |-> type])
       /\ hist' = [hist EXCEPT !.sessions = @ + (IF type = "START" THEN 1 ELSE 0)]
  /\ UNCHANGED <<run, timers>>

\* onAddScore(pts) of a kill while the game runs
AppAddScore ==
  /\ state.mode = "playing"
  /\ hist.frames < MaxAppEvents
  /\ AppDispatch([type |-> "ADD_SCORE", amount |-> 10 * scoreMultiplier(cfgLevel(state.level))])
  /\ hist' = [hist EXCEPT !.frames = @ + 1]
  /\ UNCHANGED <<run, timers>>

\* onLoseLife() while the game runs
AppLoseLife ==
  /\ state.mode = "playing"
  /\ hist.frames < MaxAppEvents
  /\ AppDispatch([type |-> "LOSE_LIFE"])
  /\ hist' = [hist EXCEPT !.frames = @ + 1]
  /\ UNCHANGED <<run, timers>>

\* the level is cleared in a frame: setTimeout(onLevelCleared, 1200)
AppScheduleClear ==
  /\ state.mode = "playing"
  /\ run.pending < MaxPending
  /\ run' = [run EXCEPT !.pending = @ + 1]
  /\ obs' = [kind |-> "setTimeout", before |-> state]
  /\ UNCHANGED <<state, storage, timers, hist>>

\* a timeout that advances the level whatever the level
AppLevelClearedAlways ==
  /\ run.pending > 0
  /\ state.level \in AppLevels
  /\ state' = [state EXCEPT !.level = @ + 1, !.session = @ + 1, !.lives = @ * 2]
  /\ obs' = [kind |-> "LEVEL_CLEARED", before |-> state]
  /\ run' = [run EXCEPT !.pending = @ - 1]
  /\ UNCHANGED <<storage, timers, hist>>

\* the timeout fires, in whatever mode the App is by then: onLevelCleared()
AppLevelCleared ==
  /\ run.pending > 0
  /\ state.level \in AppLevels
  /\ AppDispatch([type |-> "LEVEL_CLEARED"])
  /\ run' = [run EXCEPT !.pending = @ - 1]
  /\ UNCHANGED <<timers, hist>>

NextApp == AppControl \/ AppAddScore \/ AppLoseLife \/ AppScheduleClear \/ AppLevelCleared

SpecApp == InitApp /\ [][NextApp]_vars

----------------------------------------------------------------------------
(* One resolution pass: resolveBulletBirdCollisions as a function of the two           *)
(* collections. Bullets and hostiles are drawn in the cells of one row, so that a      *)
(* bullet can overlap two hostiles and two bullets can overlap one hostile.            *)

CollideXs == 0 .. 1

collideBirds ==
  {[type |-> t, hp |-> IF t = "tanky" THEN 3 ELSE 1, x |-> x, y |-> 0, vx |-> 0, vy |-> 1,
    k |-> IF t = "tanky" THEN 3 ELSE 1, dmg |-> 0, inside |-> TRUE] :
     t \in DrawnKinds, x \in CollideXs}

collideBullets ==
  {[x |-> x, y |-> 0, vx |-> 0, pierce |-> n, kind |-> "normal", n |-> n, hits |-> 0] :
     x \in CollideXs, n \in 1 .. 2}

InitCollide ==
  /\ \E level \in StartLevels : state = [appIdle EXCEPT !.level = level, !.session = level]
  /\ storage = NoItem
  /\ timers = <<>>
  /\ hist = noHist
  /\ \E birds \in UNION {[1 .. n -> collideBirds] : n \in 0 .. MaxHostiles},
        bullets \in UNION {[1 .. n -> collideBullets] : n \in 0 .. MaxShots} :
       run = [sessionReset EXCEPT !.birds = birds, !.bullets = bullets]
  /\ obs = [kind |-> "init", birds |-> <<>>, bullets |-> <<>>, hit |-> {}, hits |-> 0,
            struck |-> <<>>, kills |-> 0]

\* one call of resolveBulletBirdCollisions() on the collections as they are
Resolve ==
  /\ run.bullets # <<>>
  /\ LET drops == [j \in 1 .. Len(run.birds) |-> "none"]
         f == resolveBulletBirdCollisions(frameStart(run), state.level, drops)
     IN /\ run' = f.run
        /\ obs' = [kind |-> "resolve", birds |-> run.birds, bullets |-> run.bullets,
                   hit |-> f.o.hit, hits |-> f.o.hits, struck |-> f.struck,
                   kills |-> f.o.kills]
  /\ UNCHANGED <<state, storage, timers, hist>>

SpecCollide == InitCollide /\ [][Resolve]_vars

----------------------------------------------------------------------------
(* Properties *)

\* the sum of a sequence of numbers
RECURSIVE SumSeq(_)
SumSeq(q) == IF q = <<>> THEN 0 ELSE Head(q) + SumSeq(Tail(q))

\* the frame step: update(dt) has run once more
FrameStep == hist'.frames # hist.frames

\* the indices of a sequence of bullets that satisfy keep, smallest first
Ranked(keep, k) == CHOOSE i \in keep : Cardinality({j \in keep : j < i}) = k - 1

Bosses(birds) == {j \in 1 .. Len(birds) : birds[j].type = "boss"}

\* C1: on the frame in which a kill raises the progress to the target while no clear is
\* in progress, clearingLevel becomes true and, when the pass that made the kill has
\* finished, the hostile collection and the bullet collection are both empty.
C1_ClearEmptiesCollections ==
  obs.kind = "frame" /\ obs.cleared =>
    /\ Mounted(state) => run.clearingLevel
    /\ obs.passBirds = 0
    /\ obs.passBullets = 0

\* C2: no LEVEL_CLEARED is delivered to the App for a clear that was made in an earlier
\* session than the one the App is in.
C2_NoStaleLevelCleared == ~obs.stale

\* C3: an entry into the clearing state calls setTimeout(onLevelCleared) exactly once,
\* a kill made while clearingLevel is true calls it no more, and so a session has at
\* most one call, pending or delivered.
C3_OneCallPerClear ==
  /\ hist.scheduled <= 1
  /\ Mounted(state) => (run.clearingLevel <=> hist.scheduled = 1)
  /\ obs.kind = "frame" => obs.timeouts = (IF obs.cleared THEN 1 ELSE 0)
  /\ obs.kind = "frame" /\ obs.wasClearing => obs.timeouts = 0
  /\ \A i, j \in 1 .. Len(timers) : i # j => timers[i].session # timers[j].session

\* a kill was made while the clear was already in progress, and the session has one call
C3_Witness == obs.kind = "frame" /\ obs.lateKills > 0 /\ hist.scheduled = 1

\* C4: in a frame that starts with clearingLevel true no hostile is added, no hostile
\* and no bullet is moved, no hit is recorded and no bullet is consumed by a hit.
C4_ClearingSuspendsSimulation ==
  [][FrameStep /\ run.clearingLevel =>
       /\ Len(run'.birds) <= Len(run.birds)
       /\ \A j \in 1 .. Len(run'.birds) :
            \E k \in 1 .. Len(run.birds) :
              run'.birds[j] = [run.birds[k] EXCEPT !.hp = run'.birds[j].hp,
                                                    !.dmg = run'.birds[j].dmg]
       /\ Len(run'.bullets) >= Len(run.bullets)
       /\ SubSeq(run'.bullets, 1, Len(run.bullets)) = run.bullets
       /\ obs'.hits = 0]_vars

\* a frame that started with the clear in progress, a hostile and a bullet alive, and
\* fired nothing
C4_Witness ==
  /\ obs.kind = "frame" /\ obs.wasClearing /\ obs.fired = 0
  /\ run.birds # <<>> /\ run.bullets # <<>>

\* C5: a frame that starts with clearingLevel true leaves the hostiles, the bullets and
\* the level progress as they are and emits no score.
C5_ClearingFrameChangesNothing ==
  [][FrameStep /\ run.clearingLevel =>
       /\ run'.birds = run.birds
       /\ run'.bullets = run.bullets
       /\ run'.levelProgress = run.levelProgress
       /\ obs'.scored = 0]_vars

\* C6: of the escapes of one frame the first shieldCharges each take one charge and call
\* onLoseLife zero times, every further one calls it once; every hostile that has left is
\* removed, and shieldCharges is never negative.
C6_ShieldPrecedence ==
  /\ run.shieldCharges >= 0
  /\ \A j \in 1 .. Len(run.birds) : ~off(run.birds[j])
  /\ obs.kind = "frame" =>
       /\ obs.shieldUsed = Min(obs.shieldBefore, obs.escapes)
       /\ obs.lifeLost = obs.escapes - obs.shieldUsed

\* two escapes in one frame with one charge held: one takes the charge, one costs a life
C6_Witness ==
  obs.kind = "frame" /\ obs.shieldBefore = 1 /\ obs.escapes = 2
    /\ obs.shieldUsed = 1 /\ obs.lifeLost = 1

\* C7: the escape of a boss takes no shield charge and calls no onLoseLife.
C7_BossEscapeIsFree == obs.bossCharged = 0

\* C8: the hostile collection holds at most one boss.
C8_AtMostOneBoss == Cardinality(Bosses(run.birds)) <= 1

\* the spawner has added a hostile while the boss was alive
C8_Witness ==
  /\ run.bossAlive /\ Len(run.birds) = 2
  /\ run.birds[1].type = "boss" /\ run.birds[1].y > run.birds[2].y

\* C9: after filterHitBullets the collection holds, in order, every bullet not recorded
\* as hit, unchanged, and every hit bullet whose pierce was above 1, with pierce one
\* less; the other hit bullets are gone; no bullet has pierce below 0.
C9_FilterHitBullets ==
  /\ \A i \in 1 .. Len(run.bullets) : run.bullets[i].pierce >= 0
  /\ LET keep == {i \in 1 .. Len(obs.pre) : i \notin obs.hit \/ obs.pre[i].pierce > 1}
     IN /\ Len(obs.post) = Cardinality(keep)
        /\ \A k \in 1 .. Len(obs.post) :
             LET i == Ranked(keep, k)
             IN /\ obs.post[k].pierce = obs.pre[i].pierce - (IF i \in obs.hit THEN 1 ELSE 0)
                /\ [obs.post[k] EXCEPT !.pierce = 0, !.hits = 0]
                     = [obs.pre[i] EXCEPT !.pierce = 0, !.hits = 0]

\* a pass in which a hit bullet of pierce above 1 is kept
C9_Witness ==
  /\ \E i \in obs.hit : obs.pre[i].pierce > 1
  /\ Len(obs.post) >= 1

\* C10: a bullet emitted with pierce n is hit at most once in a pass and at most n times
\* in all; it is in the collection after each of its first n - 1 hits and is removed by
\* the n-th.
C10_PierceConservation ==
  /\ \A i \in 1 .. Len(run.bullets) :
       /\ run.bullets[i].hits < run.bullets[i].n
       /\ run.bullets[i].pierce = run.bullets[i].n - run.bullets[i].hits
  /\ LET keep == {i \in 1 .. Len(obs.pre) :
                    i \notin obs.hit \/ obs.pre[i].hits + 1 < obs.pre[i].n}
     IN /\ \A i \in obs.hit : obs.pre[i].hits + 1 <= obs.pre[i].n
        /\ Len(obs.post) = Cardinality(keep)
        /\ \A k \in 1 .. Len(obs.post) :
             LET i == Ranked(keep, k)
             IN /\ obs.post[k].n = obs.pre[i].n
                /\ obs.post[k].hits = obs.pre[i].hits + (IF i \in obs.hit THEN 1 ELSE 0)

\* a bullet emitted with pierce 2 takes its second hit and is removed
C10_Witness ==
  \E i \in obs.hit :
    /\ obs.pre[i].n = 2 /\ obs.pre[i].hits = 1
    /\ \A k \in 1 .. Len(obs.post) : obs.post[k].hits < obs.post[k].n

\* C11: at the end of every frame every hostile in the collection has hp above 0; a
\* hostile whose hp the bullets or the beam bring to 0 or below is not kept.
C11_LiveHostilesHaveHp ==
  \A j \in 1 .. Len(run.birds) : run.birds[j].hp > 0

\* a frame whose damage killed one hostile and left another, damaged, alive
C11_Witness ==
  /\ obs.kind = "frame" /\ obs.kills > 0
  /\ \E j \in 1 .. Len(run.birds) : run.birds[j].dmg > 0

\* C12: a hostile spawned with hp k is killed exactly in the frame in which its damage
\* reaches k: a live hostile has taken less than k, a killed one k or more; each kill
\* emits one score and a frame without a kill emits none.
C12_KilledWhenDamageReachesHp ==
  /\ \A j \in 1 .. Len(run.birds) :
       /\ run.birds[j].dmg < run.birds[j].k
       /\ run.birds[j].hp = run.birds[j].k - run.birds[j].dmg
  /\ obs.earlyKills = 0
  /\ obs.awards = obs.kills + (IF obs.cleared THEN 1 ELSE 0)
  /\ obs.kills = 0 => obs.scored = 0

\* a hostile spawned with hp above 1 has been killed, after frames that only hurt it
C12_Witness == obs.kind = "frame" /\ obs.toughKills > 0 /\ obs.earlyKills = 0

\* C13: the kills of a frame emit 10 * scoreMultiplier each, twice that while the double
\* buff is active, and the level progress rises by the same amount.
C13_KillPoints ==
  obs.kind = "frame" =>
    LET cfg == cfgLevel(state.level)
        bonus == IF obs.cleared THEN targetScore(cfg) \div 10 ELSE 0
        each == 10 * scoreMultiplier(cfg) * (IF obs.double THEN 2 ELSE 1)
    IN /\ obs.scored - bonus = obs.kills * each
       /\ Mounted(state) => run.levelProgress = obs.progressBefore + obs.kills * each

\* a kill while the double buff is active
C13_Witness == obs.kind = "frame" /\ obs.kills > 0 /\ obs.double /\ Mounted(state)

\* C14: while the canvas is mounted, clearingLevel is true exactly when the level
\* progress has reached the target score of the level.
C14_ClearingIffTargetReached ==
  Mounted(state) =>
    (run.clearingLevel <=> run.levelProgress >= targetScore(cfgLevel(state.level)))

\* the kill that brings the progress to the target, and a kill short of it
C14_Witness ==
  /\ obs.kind = "frame" /\ obs.kills > 0 /\ Mounted(state)
  /\ run.clearingLevel /\ ~obs.wasClearing
  /\ run.levelProgress = targetScore(cfgLevel(state.level))

\* C15: clearingLevel, once true, falls only in a step that resets the session (or
\* unmounts the canvas), and every frame that enters a clear is followed by a delivery
\* of onLevelCleared, in whatever mode the game then is; no timeout stays pending.
C15_ClearingHoldsUntilDelivered ==
  /\ [][run.clearingLevel /\ ~run'.clearingLevel =>
          state'.session # state.session \/ ~Mounted(state')]_vars
  /\ [](obs.kind = "frame" /\ obs.cleared => timers # <<>>)
  /\ (obs.kind = "frame" /\ obs.cleared) ~> (obs.kind = "LEVEL_CLEARED")
  /\ (timers # <<>>) ~> (timers = <<>>)

\* the callback has been delivered to the session that set it while the game was paused
C15_Witness == obs.kind = "LEVEL_CLEARED" /\ obs.whilePaused /\ ~obs.stale

\* C16: a hostile spawned at a side edge moves into the field: no hostile is culled as
\* escaped before it has been at an x inside the field.
C16_SideSpawnEntersField == obs.outsideEscapes = 0

\* C17: a rapid pickup sets rapidUntil to max(previous rapidUntil, now + 10000) and a
\* double pickup sets doubleUntil to max(previous doubleUntil, now + 15000); but for the
\* session reset no step lowers an expiry, and a pickup leaves no buff that was active
\* with less time than it had.
C17_PickupExtendsBuff ==
  /\ obs.kind = "rapid" =>
       /\ run.rapidUntil = Max(obs.rapidBefore, obs.nowT + 10000)
       /\ run.doubleUntil = obs.doubleBefore
  /\ obs.kind = "double" =>
       /\ run.doubleUntil = Max(obs.doubleBefore, obs.nowT + 15000)
       /\ run.rapidUntil = obs.rapidBefore
  /\ obs.kind \notin {"init", "reset"} =>
       /\ run.rapidUntil >= obs.rapidBefore
       /\ run.doubleUntil >= obs.doubleBefore
  /\ obs.kind \in PowerUpTypeSet =>
       /\ obs.nowT < obs.rapidBefore => run.rapidUntil - obs.nowT >= obs.rapidBefore - obs.nowT
       /\ obs.nowT < obs.doubleBefore => run.doubleUntil - obs.nowT >= obs.doubleBefore - obs.nowT

\* a rapid pickup while the rapid buff is active has moved its expiry to now + 10000
C17_Witness ==
  /\ obs.kind = "rapid" /\ obs.nowT < obs.rapidBefore
  /\ run.rapidUntil = obs.nowT + 10000 /\ run.rapidUntil > obs.rapidBefore

C19_OneSpawnPerFrame == obs.spawned <= 1

\* C20: on the boss-only level (50) the spawner adds no ordinary hostile, and every
\* hostile in the collection is a boss.
C20_BossOnlyLevel ==
  state.level = 50 =>
    /\ obs.spawnedNormal = 0
    /\ \A j \in 1 .. Len(run.birds) : run.birds[j].type = "boss"

\* on level 50 the spawner has run while the boss was alive and has added nothing
C20_Witness ==
  /\ state.level = 50 /\ obs.kind = "frame"
  /\ obs.spawnCalls = 1 /\ obs.spawned = 0
  /\ run.bossAlive /\ Len(run.birds) = 1

\* C21: the pool of pickType holds simple 4 times, fast 3, zigzag 2, tanky once, each
\* only if the level allows it, and never boss; the kind drawn is an entry of the pool,
\* so on a level with ordinary hostiles it is an allowed kind other than boss; with an
\* empty pool the result is simple.
C21_PickType ==
  obs.kind = "pick" =>
    LET types == birdTypes(cfgLevel(run.level))
        allowed == {types[i] : i \in 1 .. Len(types)}
        count(t) == Cardinality({i \in 1 .. Len(obs.pool) : obs.pool[i] = t})
        weight(t) == CASE t = "simple" -> 4 [] t = "fast" -> 3 [] t = "zigzag" -> 2
                       [] t = "tanky" -> 1 [] OTHER -> 0
    IN /\ \A t \in {"simple", "fast", "zigzag", "tanky", "boss"} :
            count(t) = IF t \in allowed THEN weight(t) ELSE 0
       /\ obs.result # "boss"
       /\ obs.pool # <<>> => obs.result = obs.pool[obs.index] /\ obs.result \in allowed
       /\ obs.pool = <<>> => obs.result = "simple"
       /\ allowed # {"boss"} => obs.pool # <<>>

\* tanky has been drawn on a level that also allows the boss
C21_Witness ==
  /\ obs.kind = "pick" /\ obs.result = "tanky"
  /\ \E i \in 1 .. Len(birdTypes(cfgLevel(run.level))) :
       birdTypes(cfgLevel(run.level))[i] = "boss"

\* C26: one emission pushes the bullets of the level's pattern (single, pierce and
\* rapid 1, double 2, spread3 3, quad 4, spread6 6, homing 2, ultimate 7), each with
\* the profile's pierce and kind, and two more exactly when the double buff is active
\* and the pattern is single.
C26_EmissionSize ==
  obs.kind = "emit" =>
    LET up == getUpgrade(run.level)
        base == CASE up.pattern \in {"single", "pierce", "rapid"} -> 1
                  [] up.pattern \in {"double", "homing"} -> 2
                  [] up.pattern = "spread3" -> 3
                  [] up.pattern = "quad" -> 4
                  [] up.pattern = "spread6" -> 6
                  [] up.pattern = "ultimate" -> 7
        extra == IF run.doubleOn /\ up.pattern = "single" THEN 2 ELSE 0
    IN /\ Len(obs.bullets) = base + extra
       /\ \A i \in 1 .. Len(obs.bullets) :
            obs.bullets[i].pierce = up.pierce /\ obs.bullets[i].kind = up.kind

\* the single pattern with the double buff: three bullets
C26_Witness ==
  /\ obs.kind = "emit" /\ run.doubleOn /\ getUpgrade(run.level).pattern = "single"
  /\ Len(obs.bullets) = 3

\* C22: in a frame in which the spawn decision fires, lastSpawn becomes the reading of
\* that frame whether or not a hostile was introduced, and the decision comes more than
\* 0.7 x spawnRate ms after the previous value of lastSpawn and at least that long after
\* the previous decision, however long the stall before it; in a frame without a
\* decision lastSpawn is left alone.
C22_SpawnDecision ==
  obs.kind = "frame" =>
    LET rate == spawnRate(cfgLevel(state.level))
    IN IF obs.spawnCall
       THEN /\ run.lastSpawn = run.now
            /\ run.decidedAt = run.now
            /\ 10 * (run.now - obs.lastSpawn) > 7 * rate
            /\ obs.decidedAt >= 0 => 10 * (run.now - obs.decidedAt) >= 7 * rate
       ELSE run.lastSpawn = obs.lastSpawn /\ run.decidedAt = obs.decidedAt

\* a second decision, after a long stall, that introduces no hostile
C22_Witness ==
  /\ obs.kind = "frame"
  /\ obs.spawnCall
  /\ obs.introduced = 0
  /\ obs.decidedAt >= 0
  /\ run.now - obs.lastSpawn >= 30000

\* C23: the beam is activated in a frame only at level 30 or more, when the reading has
\* reached laserNextAt and the previous activation has expired, for 3000 ms (6000 ms at
\* level 50) and at least 30000 ms after the previous activation; a frame that finds the
\* beam active does not activate it; below level 30 the beam is never active.
C23_BeamCadence ==
  /\ state.level < 30 => ~beamActiveAt(run) /\ run.activatedAt = -1
  /\ obs.kind = "frame" =>
       LET activated == run.activatedAt # obs.activatedAt
       IN /\ activated =>
               /\ state.level >= 30
               /\ run.now >= obs.laserNextAt
               /\ obs.laserUntil < run.now
               /\ run.laserUntil = run.now + (IF state.level = 50 THEN 6000 ELSE 3000)
               /\ run.laserNextAt = run.now + 30000
               /\ obs.activatedAt >= 0 => run.now - obs.activatedAt >= 30000
          /\ ~activated => run.laserUntil = obs.laserUntil /\ run.laserNextAt = obs.laserNextAt
          /\ obs.beam => ~activated
          /\ state.level < 30 => ~obs.beam /\ ~activated

\* a second activation at level 50, and a frame that found the beam active
C23_Witness ==
  /\ obs.kind = "frame"
  /\ state.level = 50
  /\ run.activatedAt = run.now
  /\ obs.activatedAt >= 0

\* C24: across time that passes while the game is paused, the remaining active time of
\* the beam and the time left until its next activation are unchanged.
C24_PausedTimeStopsBeamClock ==
  (obs.kind = "wait" /\ state.level >= 30) =>
    /\ Max(0, run.laserUntil - run.now) = Max(0, obs.laserUntil - obs.now)
    /\ Max(0, run.laserNextAt - run.now) = Max(0, obs.laserNextAt - obs.now)

\* C25: a frame emits only if fire-intent is asserted and the cooldown, counted down by
\* the frame, is zero or below; the emission resets the cooldown to the profile's base
\* value, or to max(40, base / 2) while rapid-fire is active (the rapid buff or the rapid
\* pattern), never below 40; and when the session effect has not run since the previous
\* emission, at least the value that emission reset the cooldown to has passed in
\* simulated time.
C25_Emission ==
  obs.kind = "frame" =>
    LET up == getUpgrade(state.level)
        rapid == obs.rapidActive \/ up.pattern = "rapid"
        half == up.cooldown \div 2
        expected == IF rapid THEN (IF half > 40 THEN half ELSE 40) ELSE up.cooldown
    IN IF obs.fired > 0
       THEN /\ obs.fire
            /\ obs.cooldownBefore - DtMs <= 0
            /\ run.shootCooldown = expected
            /\ run.shootCooldown >= 40
            /\ (obs.resetTo > 0 /\ ~obs.resetSince) => (obs.quiet + 1) * DtMs >= obs.resetTo
       ELSE ~obs.fire \/ obs.cooldownBefore - DtMs > 0

\* an emission under the rapid buff that follows an earlier emission of the session
C25_Witness ==
  /\ obs.kind = "frame"
  /\ obs.fired > 0
  /\ obs.rapidActive
  /\ obs.resetTo > 0
  /\ ~obs.resetSince
  /\ run.shootCooldown = 65

\* C25 as stated: two emissions are always separated by at least the value the first
\* reset the cooldown to.
C25_AlwaysApart ==
  (obs.kind = "frame" /\ obs.fired > 0 /\ obs.resetTo > 0) =>
    (obs.quiet + 1) * DtMs >= obs.resetTo

\* C27: a homing bullet picks a hostile that is higher on the playfield than itself,
\* one at the smallest Manhattan distance among those, whenever there is one; it never
\* picks a hostile level with it or lower; with no hostile higher than the bullet its
\* horizontal velocity is unchanged.
C27_SteersAhead ==
  obs.kind = "steer" =>
    LET m == run.m
        dist(j) == Abs(run.birds[j].x - m.x) + Abs(run.birds[j].y - m.y)
        ahead == {j \in 1 .. Len(run.birds) : run.birds[j].y < m.y}
    IN /\ obs.target > 0 =>
            /\ obs.target \in ahead
            /\ \A j \in ahead : dist(obs.target) <= dist(j)
       /\ ahead # {} => obs.target > 0
       /\ ahead = {} => obs.after.vx = m.vx

\* C28: in every state, right after a session reset included and whatever the scale of
\* the display, the player's x is within [w / 2, 480 - w / 2] and its y is 40 units
\* above the bottom of the playfield, which is 270 units high.
C28_PlayerInPlayfield ==
  /\ run.x >= 20 * Unit
  /\ run.x <= (480 - 20) * Unit
  /\ run.y = (270 - 40) * Unit

\* C29: right after a session reset every field of the run state has its initial value:
\* the collections are empty, the progress is 0, clearingLevel and bossAlive are false,
\* the buffs and the beam are off, shieldCharges and the fire cooldown are 0, and the
\* combo counter and the last-hit timestamp are cleared.
C29_SessionResetClearsAll ==
  obs.kind = "reset" =>
    /\ run.refs.bullets = <<>> /\ run.refs.birds = <<>> /\ run.refs.powerUps = <<>>
    /\ run.refs.levelProgress = 0
    /\ ~run.refs.clearingLevel /\ ~run.refs.bossAlive
    /\ ~run.refs.rapidOn /\ ~run.refs.doubleOn /\ ~run.refs.laserOn
    /\ run.refs.shieldCharges = 0 /\ run.refs.shootCooldown = 0
    /\ run.combo.count = 0 /\ run.combo.lastHit = 0

\* C30: in every state of the App the level is between 1 and 50 and the mode is victory
\* only at level 50; LEVEL_CLEARED below level 50 adds 1 to the level and to the session
\* and doubles the lives, leaving the mode and everything else; LEVEL_CLEARED at level
\* 50 changes the mode to victory and nothing else.
C30_LevelRange ==
  /\ state.level >= 1 /\ state.level <= 50
  /\ state.mode = "victory" => state.level = 50
  /\ obs.kind = "LEVEL_CLEARED" =>
       LET b == obs.before
       IN IF b.level < 50
          THEN state = [mode |-> b.mode, score |-> b.score, highScore |-> b.highScore,
                        session |-> b.session + 1, level |-> b.level + 1,
                        lives |-> b.lives + b.lives]
          ELSE state = [mode |-> "victory", score |-> b.score, highScore |-> b.highScore,
                        session |-> b.session, level |-> b.level, lives |-> b.lives]

\* the victory that follows the clears of levels 48, 49 and 50, the lives doubled twice
C30_Witness ==
  /\ obs.kind = "LEVEL_CLEARED"
  /\ state.mode = "victory"
  /\ obs.before.mode = "playing"
  /\ state.lives >= 8

\* C31: lives is never below 0, the App is not left playing or paused with 0 lives, and
\* while the mode is gameover before and after a step, the step leaves level, session
\* and lives as they are; the mode leaves gameover only by START or RESET.
C31_GameOverIsStable ==
  /\ [](state.lives >= 0)
  /\ [](state.lives = 0 => ~Mounted(state))
  /\ [][state.mode = "gameover" =>
          \/ obs'.kind \in {"START", "RESET"}
          \/ /\ state'.mode = "gameover"
             /\ state'.level = state.level
             /\ state'.session = state.session
             /\ state'.lives = state.lives]_vars

\* C32: in every state of the App 0 <= score <= highScore, the localStorage item reads
\* back as highScore (no item: 0), and no dispatch (START, ADD_SCORE, RESET or any
\* other) lowers highScore.
C32_HighScore ==
  /\ 0 <= state.score
  /\ state.score <= state.highScore
  /\ (IF storage = <<>> THEN 0 ELSE parseInt(storage)) = state.highScore
  /\ obs.before.highScore <= state.highScore

\* RESET after the first game has raised the high score from 0: the value is reloaded
C32_Witness ==
  /\ obs.kind = "RESET"
  /\ obs.before.score = 10
  /\ state.score = 0
  /\ state.highScore = 10

\* C33: while the canvas is mounted, the amounts emitted through onAddScore since the
\* session began add up to the level progress, plus floor(targetScore / 10) once
\* clearingLevel is true; a frame emits the bonus once if it enters the clear and not at
\* all otherwise, and the bonus is not part of the level progress.
C33_ScoreAccounting ==
  LET cfg == cfgLevel(state.level)
      bonus == targetScore(cfg) \div 10
  IN /\ Mounted(state) =>
          hist.emitted = run.levelProgress + (IF run.clearingLevel THEN bonus ELSE 0)
     /\ (obs.kind = "frame" /\ Mounted(state)) =>
          obs.scored = (run.levelProgress - obs.progressBefore)
                         + (IF obs.cleared THEN bonus ELSE 0)

\* a clear in progress that was entered above the target and has seen a later frame
C33_Witness ==
  /\ Mounted(state) /\ run.clearingLevel /\ obs.kind = "frame" /\ obs.wasClearing
  /\ run.levelProgress > targetScore(cfgLevel(state.level))

C35_EveryHitCountsOnce ==
  obs.kind = "resolve" =>
    LET B == obs.birds
        M == obs.bullets
        over(i) == {j \in 1 .. Len(B) : rectsIntersect(rectOf(M[i]), rectOf(B[j]))}
        match(i) == IF over(i) = {} THEN 0 ELSE CHOOSE j \in over(i) : \A k \in over(i) : j <= k
        cnt(j) == Cardinality({i \in 1 .. Len(M) : match(i) = j})
        after == [j \in 1 .. Len(B) |-> [B[j] EXCEPT !.hp = @ - cnt(j), !.dmg = @ + cnt(j)]]
        total == SumSeq(obs.struck)
    IN /\ obs.hit = {i \in 1 .. Len(M) : over(i) # {}}
       /\ obs.hits = Cardinality(obs.hit)
       /\ obs.struck = [j \in 1 .. Len(B) |-> cnt(j)]
       /\ total = Cardinality(obs.hit)
       /\ run.birds = SelectSeq(after, LAMBDA b : b.hp > 0)
       /\ obs.kills = Cardinality({j \in 1 .. Len(B) : after[j].hp <= 0})

\* a pass in which one bullet overlapped two hostiles: the first was killed and the
\* second, untouched, is now the first of the collection
C35_Witness ==
  /\ obs.kind = "resolve"
  /\ Len(obs.birds) = 2 /\ obs.birds[1].x = obs.birds[2].x
  /\ obs.hit # {} /\ obs.struck = <<1, 0>> /\ obs.kills = 1
  /\ Len(run.birds) = 1 /\ run.birds[1] = obs.birds[2]

\* C36: pause freezes the game: a step taken while the mode is paused is the RESUME or
\* the RESET, or it leaves the refs of the core (collections, counters and flags) as they
\* are, emits no score and leaves level, session, lives and score of the App unchanged.
C36_PauseFreezes ==
  [][state.mode = "paused" =>
       \/ state' = reducer(state, storage, [type |-> "RESUME"]).state
       \/ state' = reducer(state, storage, [type |-> "RESET"]).state
       \/ /\ run' = run
          /\ hist'.emitted = hist.emitted
          /\ state'.level = state.level /\ state'.session = state.session
          /\ state'.lives = state.lives /\ state'.score = state.score]_vars

====
